---- MODULE Spec2Model ----
(***************************************************************************)
(* Verification model of the schema-stitching core of graphql-tools-fork:  *)
(* the type healer (healTypes / pruneTypes), the transform pipeline        *)
(* (apply*Transforms / composeTransforms), RenameTypes and the null        *)
(* branch of the result reconciler (handleNull).                           *)
(***************************************************************************)
EXTENDS Integers, Sequences, FiniteSets, TLC

VARIABLES heap,        \* type objects by identity: id -> GraphQLNamedType
          typeMap,     \* schema.getTypeMap(): ordered <<key, value>> entries
          directives,  \* schema.getDirectives(): each a sequence of argument types
          nextId,      \* next free object identity (new GraphQLObjectType(...))
          muts,        \* number of ad-hoc mutations applied so far
          last,        \* what the last step was: "init", "mutate", "heal", "throw"
          lastSkip,    \* config.skipPruning of the last healTypes call
          deleted      \* the <<key, type>> pairs a visitor returned null for (history)

healVars == <<heap, typeMap, directives, nextId, muts, last, lastSkip, deleted>>

VARIABLES tList,       \* the transform list: tList[i] is the set of capabilities of transform i
          pipe,        \* what the list produced: [schema, request, result]
          comp,        \* what composeTransforms(...tList) produced, likewise
          tpc          \* position in the delegation cycle

pipeVars == <<tList, pipe, comp, tpc>>

VARIABLES renamer,     \* RenameTypes: the caller's renamer (by name, see Renamers)
          rnOptions,   \* RenameTypes: [renameBuiltins, renameScalars]
          reverseMap,  \* RenameTypes: this.reverseMap, new name -> original name
          newSchema,   \* what transformSchema returned: the types under their new names
          rnRequest,   \* [in, out]: the NamedType names of a request document
          rnResult,    \* [in, out]: the data of a result
          rnpc         \* position in the delegation cycle

renameVars == <<renamer, rnOptions, reverseMap, newSchema, rnRequest, rnResult, rnpc>>

VARIABLES hnErrors,    \* handleNull: the upstream errors that accompany the null value
          hnPath,      \* handleNull: the response path of the consuming field
          hnResult,    \* what handleNull returned
          hnpc         \* "call" before the call, "done" after it

nullVars == <<hnErrors, hnPath, hnResult, hnpc>>

VARIABLES crType,      \* checkResultAndHandleErrors: the return type of the field
          crData,      \* result.data[responseKey] of the raw execution result
          crErrors,    \* result.errors
          crObjects,   \* the objects of the raw result by identity, with their hidden annotations
          crReturn,    \* what checkResultAndHandleErrors returned
          crpc         \* "call" before the call, "done" after it

resultVars == <<crType, crData, crErrors, crObjects, crReturn, crpc>>

VARIABLES mgTypes,     \* type merging: the fields the merged type has in each subschema
          mgOrigin,    \* the subschema the object was obtained from
          mgSelection, \* the fields the client selected on the object
          mgObject,    \* the accumulating object
          mgPending,   \* the delegated merge queries issued, in the order they were issued
          mgDone,      \* the delegated merge queries that have completed, in completion order
          mgErrors,    \* the errors of the delegated merge queries
          mgInfo,      \* skipTypeMerging, whether info.mergeInfo is there, whether the type is merged
          mgShape,     \* how the client's selection is spread over field nodes and fragments
          mgPassed,    \* what handleObject handed to mergeFields, one entry per call of mergeFields
          mgpc         \* "raw", "waiting", "done"

mergeVars == <<mgTypes, mgOrigin, mgSelection, mgObject, mgPending, mgDone, mgErrors, mgInfo, mgShape, mgPassed, mgpc>>

VARIABLES msArgs,      \* mergeSchemas: the arguments of the call
          msTypeMap,   \* the type map of the merged schema
          msOutcome,   \* "call" before the call, then "schema" or "thrown"
          msConfigs    \* the caller's subschemaConfig.merge objects: per
                       \* subschema and type name, the resolve function

assembleVars == <<msArgs, msTypeMap, msOutcome, msConfigs>>

VARIABLES fsFilters,   \* filterSchema: what rootFieldFilter, typeFilter and fieldFilter accept
          fsTypeMap,   \* the type map of the schema being filtered
          fsHeap,      \* the type objects by identity
          fsQuery,     \* the field path of the query validated against the filtered schema
          fsVerdict,   \* the outcome of validating the query
          fspc         \* "call", "filtered", "validated"

filterVars == <<fsFilters, fsTypeMap, fsHeap, fsQuery, fsVerdict, fspc>>

VARIABLES wfArgs,      \* WrapFields: number of wrapping levels and the field names to wrap
          wfHeap,      \* the type objects of the schema by identity
          wfTypeMap,   \* the type map of the schema
          wfQuery,     \* the client's selections on the outer type, against the wrapped schema
          wfRequest,   \* the field nodes sent to the original schema
          wfRaw,       \* the object the original schema returned, by response key
          wfData,      \* the values resolved for the client's selections, by path of response keys
          wfpc         \* "call", "wrapped", "requested", "executed", "done", "rejected"

wrapVars == <<wfArgs, wfHeap, wfTypeMap, wfQuery, wfRequest, wfRaw, wfData, wfpc>>

VARIABLES sbIter,       \* remote subscriptions: the iterator each subscriber holds (0: not subscribed)
          sbSince,      \* the number of events published before the subscriber subscribed
          sbListeners,  \* the iterators registered as listeners of the trigger
          sbPublished,  \* the events published on the trigger, in order
          sbPushQueue,  \* per iterator, the results not pulled yet
          sbPullQueue,  \* per iterator, the subscribers whose next() is pending
          sbReceived    \* per subscriber, the results its iterator has yielded

subVars == <<sbIter, sbSince, sbListeners, sbPublished, sbPushQueue, sbPullQueue, sbReceived>>

VARIABLES rsArgs,      \* addResolveFunctionsToSchema: the flag, the graphql version, the interfaces of User
          rsObjects,   \* resolver objects by identity: each an ordered map from key to resolver
          rsResolvers, \* the caller's resolver map: type name -> resolver object
          rsGiven,     \* the caller's map and objects as they were handed in (history)
          rsApplied,   \* per type of the schema, the resolvers set on it
          rspc         \* "call", "done", "thrown"

resolverVars == <<rsArgs, rsObjects, rsResolvers, rsGiven, rsApplied, rspc>>

vars == <<healVars, pipeVars, renameVars, nullVars, resultVars, mergeVars, assembleVars, filterVars, wrapVars, subVars, resolverVars>>

\* what the operations of one component leave alone
notHeal == <<pipeVars, renameVars, nullVars, resultVars, mergeVars, assembleVars, filterVars, wrapVars, subVars, resolverVars>>

notPipe == <<healVars, renameVars, nullVars, resultVars, mergeVars, assembleVars, filterVars, wrapVars, subVars, resolverVars>>

notRename == <<healVars, pipeVars, nullVars, resultVars, mergeVars, assembleVars, filterVars, wrapVars, subVars, resolverVars>>

notNull == <<healVars, pipeVars, renameVars, resultVars, mergeVars, assembleVars, filterVars, wrapVars, subVars, resolverVars>>

notResult == <<healVars, pipeVars, renameVars, nullVars, mergeVars, assembleVars, filterVars, wrapVars, subVars, resolverVars>>

notMerge == <<healVars, pipeVars, renameVars, nullVars, resultVars, assembleVars, filterVars, wrapVars, subVars, resolverVars>>

notAssemble == <<healVars, pipeVars, renameVars, nullVars, resultVars, mergeVars, filterVars, wrapVars, subVars, resolverVars>>

notFilter == <<healVars, pipeVars, renameVars, nullVars, resultVars, mergeVars, assembleVars, wrapVars, subVars, resolverVars>>

notWrap == <<healVars, pipeVars, renameVars, nullVars, resultVars, mergeVars, assembleVars, filterVars, subVars, resolverVars>>

notSub == <<healVars, pipeVars, renameVars, nullVars, resultVars, mergeVars, assembleVars, filterVars, wrapVars, resolverVars>>

notResolver == <<healVars, pipeVars, renameVars, nullVars, resultVars, mergeVars, assembleVars, filterVars, wrapVars, subVars>>

(***************************************************************************)
(* Values of a type map slot: an object identity (1, 2, ...), NULL for     *)
(* JavaScript null (a type deleted by a visitor), UNDEF for a missing key. *)
(***************************************************************************)
NULL == 0

UNDEF == -1

\* Names that start with the two-character meta prefix "__": GraphQL reserves
\* them for the introspection types, so no user type is given one.
IntroNames == {"__Type"}

\* typeName.startsWith('__')
StartsWithMeta(n) == n \in IntroNames

(***************************************************************************)
(* An ordered JavaScript object used as a map (Object.keys order is        *)
(* insertion order for non-integer keys).                                  *)
(***************************************************************************)
Keys(m) == [i \in 1..Len(m) |-> m[i].k]

HasKey(m, k) == \E i \in 1..Len(m) : m[i].k = k

Get(m, k) == IF HasKey(m, k)
             THEN m[CHOOSE i \in 1..Len(m) : m[i].k = k].v
             ELSE UNDEF

Set(m, k, v) == IF HasKey(m, k)
                THEN [i \in 1..Len(m) |-> IF m[i].k = k THEN [k |-> k, v |-> v] ELSE m[i]]
                ELSE Append(m, [k |-> k, v |-> v])

Del(m, k) == SelectSeq(m, LAMBDA e : e.k # k)

(***************************************************************************)
(* Type references: a named type under list / non-null wrappers.          *)
(***************************************************************************)
Ref(w, t) == [w |-> w, t |-> t]

Named(t) == Ref(<<>>, t)

Field(n, ty, as) == [name |-> n, type |-> ty, args |-> as]

Obj(n, k, fs, is, ts) == [name |-> n, kind |-> k, fields |-> fs, ifaces |-> is, types |-> ts]

(***************************************************************************)
(* Stub placeholders (utils/stub): a stub is an object, interface or input *)
(* type whose only field is "__fake"; a stub named like a built-in scalar  *)
(* stands for that scalar.                                                 *)
(***************************************************************************)
StringId == 5

BuiltInNames == {"String"}

IsStub(o) ==
    /\ o.kind \in {"object", "interface", "input"}
    /\ Len(o.fields) = 1
    /\ o.fields[1].name = "__fake"

GetBuiltInForStub(hp, t) == IF hp[t].name \in BuiltInNames THEN StringId ELSE t

(***************************************************************************)
(* Sequencing: Bind(x, F) is F applied to the value of x, with x evaluated *)
(* once (the statement order of the source: "const v = x; ... F(v)").      *)
(***************************************************************************)
Bind(x, F(_)) == CHOOSE r \in {F(v) : v \in {x}} : TRUE

(***************************************************************************)
(* healType on a named type: the official instance is the one the type map *)
(* holds under the type's name; a name the map does not hold (undefined)   *)
(* is registered with the referencing instance; null stays null.           *)
(***************************************************************************)
\* mutant of HealNamed: null is taken for a missing name (officialType == undefined)
HealNamedLoose(tm, hp, t) ==
    LET name == hp[t].name
        officialType == Get(tm, name)
    IN  IF officialType \in {UNDEF, NULL}
        THEN LET o == IF IsStub(hp[t]) THEN GetBuiltInForStub(hp, t) ELSE t
             IN  [tm |-> Set(tm, name, o), r |-> o]
        ELSE [tm |-> tm, r |-> officialType]

HealNamed(tm, hp, t) ==
    LET name == hp[t].name
        officialType == Get(tm, name)
    IN  IF officialType = UNDEF
        THEN LET o == IF IsStub(hp[t]) THEN GetBuiltInForStub(hp, t) ELSE t
             IN  [tm |-> Set(tm, name, o), r |-> o]
        ELSE [tm |-> tm, r |-> officialType]

\* healType, with the list / non-null wrappers rebuilt around the healed type;
\* null is TRUE when the result is null
HealType(tm, hp, ref) ==
    Bind(HealNamed(tm, hp, ref.t), LAMBDA h :
         [tm |-> h.tm, null |-> h.r = NULL, r |-> Ref(ref.w, h.r)])

\* updateEachKey(args, arg => { arg.type = healType(arg.type); ... }):
\* an argument whose healed type is null is removed
RECURSIVE HealArgs(_, _, _, _, _)
HealArgs(tm, hp, refs, i, out) ==
    IF i > Len(refs)
    THEN [tm |-> tm, out |-> out]
    ELSE Bind(HealType(tm, hp, refs[i]), LAMBDA h :
         Bind(IF h.null THEN out ELSE Append(out, h.r), LAMBDA kept :
              HealArgs(h.tm, hp, refs, i + 1, kept)))

\* updateEachKey over a list of named types (interfaces, union members)
RECURSIVE HealNamedList(_, _, _, _, _)
HealNamedList(tm, hp, ids, i, out) ==
    IF i > Len(ids)
    THEN [tm |-> tm, out |-> out]
    ELSE Bind(HealNamed(tm, hp, ids[i]), LAMBDA h :
         Bind(IF h.r = NULL THEN out ELSE Append(out, h.r), LAMBDA kept :
              HealNamedList(h.tm, hp, ids, i + 1, kept)))

\* healFields / healInputFields of the object o: the arguments first, then the
\* field type; a field whose healed type is null is removed.  fs is the
\* snapshot of o's fields, out the fields already healed and kept.
RECURSIVE HealFieldSeq(_, _, _, _, _, _)
HealFieldSeq(tm, hp, o, fs, i, out) ==
    Bind([hp EXCEPT ![o].fields = out \o SubSeq(fs, i, Len(fs))], LAMBDA cur :
         IF i > Len(fs)
         THEN [tm |-> tm, hp |-> cur]
         ELSE Bind(HealArgs(tm, cur, fs[i].args, 1, <<>>), LAMBDA a :
              Bind(HealType(a.tm, cur, fs[i].type), LAMBDA h :
              Bind(IF h.null
                   THEN out
                   ELSE Append(out, Field(fs[i].name, h.r, a.out)), LAMBDA kept :
                   HealFieldSeq(h.tm, hp, o, fs, i + 1, kept)))))

HealFields(tm, hp, o) == HealFieldSeq(tm, hp, o, hp[o].fields, 1, <<>>)

HealInputFields(tm, hp, o) == HealFieldSeq(tm, hp, o, hp[o].fields, 1, <<>>)

HealInterfaces(tm, hp, o) ==
    Bind(HealNamedList(tm, hp, hp[o].ifaces, 1, <<>>), LAMBDA h :
         [tm |-> h.tm, hp |-> [hp EXCEPT ![o].ifaces = h.out]])

HealUnderlyingTypes(tm, hp, o) ==
    Bind(HealNamedList(tm, hp, hp[o].types, 1, <<>>), LAMBDA h :
         [tm |-> h.tm, hp |-> [hp EXCEPT ![o].types = h.out]])

\* heal(type): dispatch on the class of the type
Heal(tm, hp, o) ==
    CASE hp[o].kind = "object" ->
            Bind(HealFields(tm, hp, o), LAMBDA f : HealInterfaces(f.tm, f.hp, o))
      [] hp[o].kind = "interface" -> HealFields(tm, hp, o)
      [] hp[o].kind = "union" -> HealUnderlyingTypes(tm, hp, o)
      [] hp[o].kind = "input" -> HealInputFields(tm, hp, o)
      [] OTHER -> [tm |-> tm, hp |-> hp]

(***************************************************************************)
(* healTypes.  A healing state is [tm, hp, dirs, threw, diverged].         *)
(***************************************************************************)
HState(tm, hp, dirs, threw, diverged) ==
    [tm |-> tm, hp |-> hp, dirs |-> dirs, threw |-> threw, diverged |-> diverged]

\* Mutant of BuildActual: a later entry of the same actual name silently
\* replaces the earlier one instead of throwing.
RECURSIVE BuildActualLastWins(_, _, _, _)
BuildActualLastWins(tm, hp, i, actual) ==
    IF i > Len(tm)
    THEN [dup |-> FALSE, actual |-> actual]
    ELSE IF tm[i].v = NULL \/ StartsWithMeta(tm[i].k)
         THEN BuildActualLastWins(tm, hp, i + 1, actual)
         ELSE LET actualName == hp[tm[i].v].name
              IN  IF StartsWithMeta(actualName)
                  THEN BuildActualLastWins(tm, hp, i + 1, actual)
                  ELSE Bind(Set(actual, actualName, tm[i].v), LAMBDA added :
                            BuildActualLastWins(tm, hp, i + 1, added))

\* First pass: the map from each type's own .name to the type; dup is TRUE
\* when a second entry resolves to a name already recorded (the throw).
RECURSIVE BuildActual(_, _, _, _)
BuildActual(tm, hp, i, actual) ==
    IF i > Len(tm)
    THEN [dup |-> FALSE, actual |-> actual]
    ELSE IF tm[i].v = NULL \/ StartsWithMeta(tm[i].k)
         THEN BuildActual(tm, hp, i + 1, actual)
         ELSE LET actualName == hp[tm[i].v].name
              IN  IF StartsWithMeta(actualName)
                  THEN BuildActual(tm, hp, i + 1, actual)
                  ELSE IF HasKey(actual, actualName)
                       THEN [dup |-> TRUE, actual |-> actual]
                       ELSE Bind(Append(actual, [k |-> actualName, v |-> tm[i].v]),
                                 LAMBDA added : BuildActual(tm, hp, i + 1, added))

\* Second pass: add back every named type by its actual name.
RECURSIVE AddActual(_, _, _)
AddActual(tm, actual, i) ==
    IF i > Len(actual)
    THEN tm
    ELSE Bind(Set(tm, actual[i].k, actual[i].v), LAMBDA added :
              AddActual(added, actual, i + 1))

\* Directive declaration argument types.
RECURSIVE HealDirectives(_, _, _, _, _)
HealDirectives(tm, hp, dirs, i, out) ==
    IF i > Len(dirs)
    THEN [tm |-> tm, dirs |-> out]
    ELSE Bind(HealArgs(tm, hp, dirs[i], 1, <<>>), LAMBDA a :
         Bind(Append(out, a.out), LAMBDA healed :
              HealDirectives(a.tm, hp, dirs, i + 1, healed)))

\* Third pass: heal every type keyed by an actual name; ks is the snapshot
\* of the keys taken when the pass starts.
RECURSIVE HealAll(_, _, _, _, _)
HealAll(tm, hp, actual, ks, i) ==
    IF i > Len(ks)
    THEN [tm |-> tm, hp |-> hp]
    ELSE IF ~StartsWithMeta(ks[i]) /\ HasKey(actual, ks[i])
         THEN Bind(Heal(tm, hp, Get(tm, ks[i])), LAMBDA h :
                   HealAll(h.tm, h.hp, actual, ks, i + 1))
         ELSE HealAll(tm, hp, actual, ks, i + 1)

\* Mutant of DropDangling: the old keys of renamed types are left in the map.
DropDanglingKeepsAll(tm, actual) == tm

\* Mutant of DropDangling: only the entries of deleted types are dropped.
DropDanglingNullsOnly(tm, actual) == SelectSeq(tm, LAMBDA e : e.v # NULL)

\* Fourth pass: drop the keys that are not an actual name.
DropDangling(tm, actual) ==
    SelectSeq(tm, LAMBDA e : StartsWithMeta(e.k) \/ HasKey(actual, e.k))

\* pruneTypes: the names of the interfaces some object type of the map implements
ImplementedInterfaces(tm, hp) ==
    {hp[i].name : i \in UNION {
        {hp[tm[j].v].ifaces[n] : n \in 1..Len(hp[tm[j].v].ifaces)} :
            j \in {x \in 1..Len(tm) : tm[x].v # NULL /\ hp[tm[x].v].kind = "object"}}}

\* Mutant of ShouldPrune: an interface is pruned only for having no fields.
ShouldPruneFieldsOnly(implementedInterfaces, hp, v) ==
    /\ v # NULL
    /\ CASE hp[v].kind \in {"object", "interface"} -> Len(hp[v].fields) = 0
         [] hp[v].kind = "union" -> Len(hp[v].types) = 0
         [] OTHER -> FALSE

ShouldPrune(implementedInterfaces, hp, v) ==
    /\ v # NULL
    /\ CASE hp[v].kind = "object" -> Len(hp[v].fields) = 0
         [] hp[v].kind = "union" -> Len(hp[v].types) = 0
         [] hp[v].kind = "interface" ->
                Len(hp[v].fields) = 0 \/ hp[v].name \notin implementedInterfaces
         [] OTHER -> FALSE

\* Mutant of PruneTypes: the pruned map is not healed again.
PruneTypesOnce(s) ==
    Bind(ImplementedInterfaces(s.tm, s.hp), LAMBDA implementedInterfaces :
         [s |-> [s EXCEPT !.tm = SelectSeq(s.tm,
                    LAMBDA e : ~ShouldPrune(implementedInterfaces, s.hp, e.v))],
          again |-> FALSE])

\* pruneTypes: the map without the prunable types; again is TRUE when a type
\* was pruned, which requires another round of healing
PruneTypes(s) ==
    Bind(ImplementedInterfaces(s.tm, s.hp), LAMBDA implementedInterfaces :
    Bind(SelectSeq(s.tm, LAMBDA e : ~ShouldPrune(implementedInterfaces, s.hp, e.v)),
         LAMBDA pruned :
            [s |-> [s EXCEPT !.tm = pruned], again |-> pruned # s.tm]))

\* the four passes of healTypes, before pruning
HealPasses(s) ==
    Bind(BuildActual(s.tm, s.hp, 1, <<>>), LAMBDA b :
         IF b.dup
         THEN [s EXCEPT !.threw = TRUE]
         ELSE Bind(AddActual(s.tm, b.actual, 1), LAMBDA tm2 :
              Bind(HealDirectives(tm2, s.hp, s.dirs, 1, <<>>), LAMBDA d :
              Bind(HealAll(d.tm, s.hp, b.actual, Keys(d.tm), 1), LAMBDA h :
                   HState(DropDangling(h.tm, b.actual), h.hp, d.dirs, FALSE, FALSE)))))

\* healTypes, then pruneTypes and its recursive healTypes(prunedTypeMap,
\* directives) with the default configuration
RECURSIVE HealTypesRec(_, _, _)
HealTypesRec(s, skipPruning, fuel) ==
    IF fuel = 0
    THEN [s EXCEPT !.diverged = TRUE]
    ELSE Bind(HealPasses(s), LAMBDA healed :
         IF healed.threw \/ skipPruning
         THEN healed
         ELSE Bind(PruneTypes(healed), LAMBDA p :
                   IF p.again THEN HealTypesRec(p.s, FALSE, fuel - 1) ELSE p.s))

\* healTypes(originalTypeMap, directives, config): at most one round per entry
\* of the map can prune, so Len(tm) + 2 rounds are never exhausted by a
\* terminating run.
HealTypes(tm, hp, dirs, skipPruning) ==
    Bind(HState(tm, hp, dirs, FALSE, FALSE), LAMBDA s :
         HealTypesRec(s, skipPruning, Len(tm) + 2))

(***************************************************************************)
(* The schema under repair.  Two constructions: a built schema, whose type *)
(* map holds the built-in scalar, and a map under assembly, which does not *)
(* and whose fields refer to the scalar through a stub.                    *)
(***************************************************************************)
MaxMuts == 2

StubId == 7

BaseHeap(str) ==
    <<Obj("Query", "object",
          <<Field("someQuery", Named(2), <<Named(8)>>),
            Field("nodes", Ref(<<"List">>, 3), <<>>),
            Field("u", Named(4), <<>>)>>, <<>>, <<>>),
      Obj("W", "object", <<Field("willBeRemoved", Named(str), <<>>)>>, <<3>>, <<>>),
      Obj("I", "interface", <<Field("willBeRemoved", Named(str), <<>>)>>, <<>>, <<>>),
      Obj("U", "union", <<>>, <<>>, <<2>>),
      Obj("String", "scalar", <<>>, <<>>, <<>>),
      Obj("__Type", "object", <<Field("name", Named(StringId), <<>>)>>, <<>>, <<>>),
      Obj("String", "object", <<Field("__fake", Named(StringId), <<>>)>>, <<>>, <<>>),
      Obj("In", "input", <<Field("v", Ref(<<"NonNull">>, str), <<>>)>>, <<>>, <<>>)>>

BaseKeys == <<"Query", "W", "I", "U", "__Type", "In">>

BaseMap(built) ==
    LET m == [i \in 1..Len(BaseKeys) |->
                [k |-> BaseKeys[i],
                 v |-> CHOOSE o \in 1..Len(BaseHeap(StringId)) :
                          /\ BaseHeap(StringId)[o].name = BaseKeys[i]
                          /\ o # StubId]]
    IN  IF built THEN Append(m, [k |-> "String", v |-> StringId]) ELSE m

\* The ad-hoc mutations tried: <<key, new name>> pairs for the two ways of
\* renaming (to a fresh name, to a name already in use), and the keys of the
\* types deleted, emptied or losing a field.
CopyRenames == {<<"W", "X">>, <<"I", "W">>}

PlaceRenames == {<<"W", "X">>, <<"U", "W">>, <<"In", "X">>}

Deletable == {"W", "In", "String"}

Emptied == {"W"}

FieldRemovals == {<<"W", 1>>, <<"I", 1>>, <<"Query", 1>>}

HealInit ==
    /\ \E built \in BOOLEAN :
          /\ heap = BaseHeap(IF built THEN StringId ELSE StubId)
          /\ typeMap = BaseMap(built)
    /\ directives = <<<<Named(8)>>>>
    /\ nextId = Len(BaseHeap(StringId)) + 1
    /\ muts = 0
    /\ last = "init"
    /\ lastSkip = FALSE
    /\ deleted = {}

\* the position of a key that holds a type
Slot(k) == CHOOSE i \in 1..Len(typeMap) : typeMap[i].k = k

Holds(k) == HasKey(typeMap, k) /\ Get(typeMap, k) # NULL

Mutated ==
    /\ muts < MaxMuts
    /\ muts' = muts + 1
    /\ last' = "mutate"
    /\ UNCHANGED <<directives, lastSkip>>

\* originalTypeMap[k] = new GraphQLObjectType({ ...config, fields: {} })
ReplaceWithEmpty(k) ==
    /\ Holds(k)
    /\ heap[Get(typeMap, k)].kind = "object"
    /\ heap' = Append(heap, [heap[Get(typeMap, k)] EXCEPT !.fields = <<>>])
    /\ typeMap' = [typeMap EXCEPT ![Slot(k)].v = nextId]
    /\ nextId' = nextId + 1
    /\ UNCHANGED deleted
    /\ Mutated
    /\ UNCHANGED notHeal

\* RenameTypes: the visitor returns a copy of the type under a new name, which
\* visitSchema stores under the old key
RenameByCopy(k, n) ==
    /\ Holds(k)
    /\ n # heap[Get(typeMap, k)].name
    /\ heap' = Append(heap, [heap[Get(typeMap, k)] EXCEPT !.name = n])
    /\ typeMap' = [typeMap EXCEPT ![Slot(k)].v = nextId]
    /\ nextId' = nextId + 1
    /\ UNCHANGED deleted
    /\ Mutated
    /\ UNCHANGED notHeal

\* a visitor that sets type.name in place
RenameInPlace(k, n) ==
    /\ Holds(k)
    /\ n # heap[Get(typeMap, k)].name
    /\ heap' = [heap EXCEPT ![Get(typeMap, k)].name = n]
    /\ UNCHANGED <<typeMap, nextId>>
    /\ UNCHANGED deleted
    /\ Mutated
    /\ UNCHANGED notHeal

\* a visitor that returns null: the type is kept in the map as null
DeleteType(k) ==
    /\ Holds(k)
    /\ typeMap' = [typeMap EXCEPT ![Slot(k)].v = NULL]
    /\ UNCHANGED <<heap, nextId>>
    /\ deleted' = deleted \cup {<<k, Get(typeMap, k)>>}
    /\ Mutated
    /\ UNCHANGED notHeal

\* a field visitor that returns null: updateEachKey deletes the field
RemoveField(k, f) ==
    /\ Holds(k)
    /\ f \in 1..Len(heap[Get(typeMap, k)].fields)
    /\ heap' = [heap EXCEPT ![Get(typeMap, k)].fields =
                    SubSeq(@, 1, f - 1) \o SubSeq(@, f + 1, Len(@))]
    /\ UNCHANGED <<typeMap, nextId>>
    /\ UNCHANGED deleted
    /\ Mutated
    /\ UNCHANGED notHeal

\* healSchema / healTypes, the whole call including the pruning rounds
HealSchema(skipPruning) ==
    \E r \in {HealTypes(typeMap, heap, directives, skipPruning)} :
        /\ heap' = r.hp
        /\ typeMap' = r.tm
        /\ directives' = r.dirs
        /\ last' = IF r.threw THEN "throw" ELSE IF r.diverged THEN "diverged" ELSE "heal"
        /\ lastSkip' = skipPruning
        /\ UNCHANGED <<nextId, muts, deleted>>
        /\ UNCHANGED notHeal

HealNext ==
    \/ \E k \in Emptied : ReplaceWithEmpty(k)
    \/ \E r \in CopyRenames : RenameByCopy(r[1], r[2])
    \/ \E r \in PlaceRenames : RenameInPlace(r[1], r[2])
    \/ \E k \in Deletable : DeleteType(k)
    \/ \E r \in FieldRemovals : RemoveField(r[1], r[2])
    \/ \E skipPruning \in BOOLEAN : HealSchema(skipPruning)

(***************************************************************************)
(* Properties of the type healer.                                          *)
(***************************************************************************)
Range(q) == {q[i] : i \in 1..Len(q)}

\* the named types an object refers to: field and argument types (unwrapped),
\* implemented interfaces, union members
RefsOf(o) ==
    {o.fields[i].type.t : i \in 1..Len(o.fields)}
        \cup UNION {{o.fields[i].args[j].t : j \in 1..Len(o.fields[i].args)} :
                       i \in 1..Len(o.fields)}
        \cup Range(o.ifaces) \cup Range(o.types)

HealedWithPruning == last = "heal" /\ ~lastSkip

\* C1: after healTypes returns without throwing, every non-introspection key k
\* of the type map holds a type whose own name is k (a renamed type is found
\* under its new name, and its old key is gone).
C1_KeysAreActualNames ==
    last = "heal" =>
        \A i \in 1..Len(typeMap) :
            ~StartsWithMeta(typeMap[i].k) =>
                /\ typeMap[i].v # NULL
                /\ heap[typeMap[i].v].name = typeMap[i].k

C1_Witness ==
    /\ last = "heal"
    /\ HasKey(typeMap, "X")
    /\ ~HasKey(typeMap, "W")

\* the instance a schema holds under a name: the entry of the type map, and
\* for a built-in scalar the map does not list, the built-in itself
Official(tm, n) ==
    IF ~HasKey(tm, n) /\ n \in BuiltInNames THEN StringId ELSE Get(tm, n)

\* C2: after healing with pruning, every type referred to by a type of the map
\* (field, argument and input-field types unwrapped, implemented interfaces,
\* union members) is the very instance the map holds under that type's name;
\* no reference is left to a type that healing or pruning removed.
C2_ReferencesAreMapInstances ==
    HealedWithPruning =>
        \A i \in 1..Len(typeMap) :
            typeMap[i].v # NULL =>
                \A t \in RefsOf(heap[typeMap[i].v]) :
                    Official(typeMap, heap[t].name) = t

\* C3: healing is idempotent: healing a healed map again, with the same
\* configuration, changes neither the map, nor any type, nor the directives.
C3_HealIdempotent ==
    last = "heal" =>
        LET r == HealTypes(typeMap, heap, directives, lastSkip)
        IN  /\ ~r.threw
            /\ ~r.diverged
            /\ r.tm = typeMap
            /\ r.hp = heap
            /\ r.dirs = directives

C3_Witness ==
    /\ HealedWithPruning
    /\ HasKey(typeMap, "X")
    /\ ~HasKey(typeMap, "I")
    /\ Len(heap[3].fields) = 0

\* C4: after healing with pruning, the map holds no object type without
\* fields, no interface without fields or without an object type of the map
\* implementing it, and no union without member types.
C4_NothingLeftToPrune ==
    HealedWithPruning =>
        \A i \in 1..Len(typeMap) :
            typeMap[i].v # NULL =>
                LET o == heap[typeMap[i].v]
                IN  /\ o.kind \in {"object", "interface"} => Len(o.fields) > 0
                    /\ o.kind = "union" => Len(o.types) > 0
                    /\ o.kind = "interface" =>
                          \E j \in 1..Len(typeMap) :
                              /\ typeMap[j].v # NULL
                              /\ heap[typeMap[j].v].kind = "object"
                              /\ typeMap[i].v \in Range(heap[typeMap[j].v].ifaces)

\* the only field of W, the sole implementer of I, was removed, and both W and
\* I are absent from the healed map
C4_Witness ==
    /\ HealedWithPruning
    /\ Len(heap[2].fields) = 0
    /\ ~HasKey(typeMap, "W")
    /\ ~HasKey(typeMap, "I")

\* two entries under non-introspection keys, both non-null, whose types have
\* the same own name
SameActualName(tm, hp) ==
    \E i, j \in 1..Len(tm) :
        /\ i # j
        /\ ~StartsWithMeta(tm[i].k) /\ ~StartsWithMeta(tm[j].k)
        /\ tm[i].v # NULL /\ tm[j].v # NULL
        /\ hp[tm[i].v].name = hp[tm[j].v].name

Visited == {i \in 1..Len(typeMap) : typeMap[i].v # NULL /\ ~StartsWithMeta(typeMap[i].k)}

\* the types deleted by a visitor that did nothing else to them: the type
\* still has the name of the key it was deleted under
DeletedOnly == {d[2] : d \in {x \in deleted : heap[x[2]].name = x[1]}}

KeySet(tm) == {tm[i].k : i \in 1..Len(tm)}

\* the rounds of healTypes from the state s: every round that prunes is
\* followed by a healing round that leaves the pruned keys out and the map no
\* larger, until a round prunes nothing
RECURSIVE RoundsShrink(_, _)
RoundsShrink(s, fuel) ==
    IF fuel = 0 THEN FALSE
    ELSE Bind(HealPasses(s), LAMBDA h :
         IF h.threw THEN TRUE
         ELSE Bind(PruneTypes(h), LAMBDA p :
              IF ~p.again THEN TRUE
              ELSE Bind(HealPasses(p.s), LAMBDA n :
                   /\ ~n.threw
                   /\ Len(p.s.tm) < Len(h.tm)
                   /\ Len(n.tm) <= Len(p.s.tm)
                   /\ (KeySet(h.tm) \ KeySet(p.s.tm)) \cap KeySet(n.tm) = {}
                   /\ RoundsShrink(p.s, fuel - 1))))

\* the number of healing rounds healTypes takes from the state s
RECURSIVE RoundCount(_, _)
RoundCount(s, fuel) ==
    IF fuel = 0 THEN 0
    ELSE Bind(HealPasses(s), LAMBDA h :
         IF h.threw THEN 1
         ELSE Bind(PruneTypes(h), LAMBDA p :
              IF p.again THEN 1 + RoundCount(p.s, fuel - 1) ELSE 1))

MaxTransforms == 3

Capabilities == {"transformSchema", "transformRequest", "transformResult"}

\* transform.f ? transform.f(value) : value
ApplyOne(transform, f, value) ==
    IF f \in transform.caps THEN Append(value, transform.id) ELSE value

\* transforms.reduce(...)
RECURSIVE Reduce(_, _, _, _)
Reduce(ts, f, value, i) ==
    IF i > Len(ts) THEN value ELSE Reduce(ts, f, ApplyOne(ts[i], f, value), i + 1)

\* transforms.reduceRight(...)
RECURSIVE ReduceRight(_, _, _, _)
ReduceRight(ts, f, value, i) ==
    IF i < 1 THEN value ELSE ReduceRight(ts, f, ApplyOne(ts[i], f, value), i - 1)

applySchemaTransforms(originalSchema, ts) == Reduce(ts, "transformSchema", originalSchema, 1)

applyRequestTransforms(originalRequest, ts) == Reduce(ts, "transformRequest", originalRequest, 1)

\* Mutant of applyResultTransforms: the results are folded from the left.
applyResultTransformsForward(originalResult, ts) ==
    Reduce(ts, "transformResult", originalResult, 1)

applyResultTransforms(originalResult, ts) ==
    ReduceRight(ts, "transformResult", originalResult, Len(ts))

\* [...transforms].reverse()
Reverse(q) == [i \in 1..Len(q) |-> q[Len(q) + 1 - i]]

\* the three functions of the transform composeTransforms(...ts) returns
ComposedTransformSchema(ts, originalSchema) == applySchemaTransforms(originalSchema, ts)

ComposedTransformRequest(ts, originalRequest) ==
    applyRequestTransforms(originalRequest, Reverse(ts))

ComposedTransformResult(ts, result) == applyResultTransforms(result, Reverse(ts))

NoTrace == [schema |-> <<>>, request |-> <<>>, result |-> <<>>]

PipeInit ==
    /\ \E n \in 0..MaxTransforms : \E c \in [1..n -> SUBSET Capabilities] :
          tList = [i \in 1..n |-> [id |-> i, caps |-> c[i]]]
    /\ pipe = NoTrace
    /\ comp = NoTrace
    /\ tpc = "schema"

ApplySchema ==
    /\ tpc = "schema"
    /\ pipe' = [pipe EXCEPT !.schema = applySchemaTransforms(<<>>, tList)]
    /\ tpc' = "request"
    /\ UNCHANGED <<tList, comp>>
    /\ UNCHANGED notPipe

ApplyRequest ==
    /\ tpc = "request"
    /\ pipe' = [pipe EXCEPT !.request = applyRequestTransforms(<<>>, tList)]
    /\ tpc' = "result"
    /\ UNCHANGED <<tList, comp>>
    /\ UNCHANGED notPipe

ApplyResult ==
    /\ tpc = "result"
    /\ pipe' = [pipe EXCEPT !.result = applyResultTransforms(<<>>, tList)]
    /\ tpc' = "composedSchema"
    /\ UNCHANGED <<tList, comp>>
    /\ UNCHANGED notPipe

ComposedSchema ==
    /\ tpc = "composedSchema"
    /\ comp' = [comp EXCEPT !.schema = ComposedTransformSchema(tList, <<>>)]
    /\ tpc' = "composedRequest"
    /\ UNCHANGED <<tList, pipe>>
    /\ UNCHANGED notPipe

ComposedRequest ==
    /\ tpc = "composedRequest"
    /\ comp' = [comp EXCEPT !.request = ComposedTransformRequest(tList, <<>>)]
    /\ tpc' = "composedResult"
    /\ UNCHANGED <<tList, pipe>>
    /\ UNCHANGED notPipe

ComposedResult ==
    /\ tpc = "composedResult"
    /\ comp' = [comp EXCEPT !.result = ComposedTransformResult(tList, <<>>)]
    /\ tpc' = "done"
    /\ UNCHANGED <<tList, pipe>>
    /\ UNCHANGED notPipe

PipeNext ==
    \/ ApplySchema
    \/ ApplyRequest
    \/ ApplyResult
    \/ ComposedSchema
    \/ ComposedRequest
    \/ ComposedResult

\* the transforms of ts that have the function f, in list order
Having(ts, f) == SelectSeq([i \in 1..Len(ts) |-> ts[i].id], LAMBDA i : f \in ts[i].caps)

ListApplied == tpc \in {"composedSchema", "composedRequest", "composedResult", "done"}

\* C6: over a list, the schema and request functions run first to last, the
\* result functions last to first, a transform lacking the function being
\* skipped; so the result functions run in the reverse of the request order.
C6_ForwardThenReverse ==
    ListApplied =>
        /\ pipe.schema = Having(tList, "transformSchema")
        /\ pipe.request = Having(tList, "transformRequest")
        /\ pipe.result = Reverse(Having(tList, "transformResult"))

C6_Witness ==
    /\ ListApplied
    /\ Len(pipe.request) >= 2
    /\ pipe.result = Reverse(pipe.request)
    /\ Len(pipe.schema) < Len(tList)

\* C7: the transform composeTransforms returns does what the list does, in
\* all three directions.
C7_ComposedEqualsList ==
    tpc = "done" =>
        /\ comp.schema = Having(tList, "transformSchema")
        /\ comp.request = Having(tList, "transformRequest")
        /\ comp.result = Reverse(Having(tList, "transformResult"))

(***************************************************************************)
(* RenameTypes.  A type of the original schema is [name, kind, root]; the  *)
(* schema has a root query type, two object types, a custom scalar and a   *)
(* built-in scalar.                                                        *)
(***************************************************************************)
MaxNames == 2

Type(n, k, root) == [name |-> n, kind |-> k, root |-> root]

OriginalTypes ==
    << Type("Query", "object", TRUE), Type("A", "object", FALSE),
       Type("B", "object", FALSE), Type("S", "scalar", FALSE),
       Type("String", "scalar", FALSE) >>

TypeNames == {OriginalTypes[i].name : i \in 1..Len(OriginalTypes)}

\* what a renamer returns for a name it does not rename (a falsy value)
undefined == "(undefined)"

Renamers == {"prefix", "swap", "identity", "onlyA"}

\* this.renamer(name)
Renamer(r, name) ==
    CASE r = "prefix" -> "New_" \o name
      [] r = "swap" -> IF name = "A" THEN "B" ELSE IF name = "B" THEN "A" ELSE name
      [] r = "identity" -> name
      [] r = "onlyA" -> IF name = "A" THEN "New_A" ELSE undefined

isSpecifiedScalarType(type) == type.name \in BuiltInNames

\* The TYPE visitor of transformSchema: the new name of the type, or undefined
\* (keep the type unchanged).  Root types go to the ROOT_OBJECT visitor.
VisitType(r, opts, type) ==
    IF type.root
    THEN undefined
    ELSE IF isSpecifiedScalarType(type) /\ ~opts.renameBuiltins
         THEN undefined
         ELSE IF type.kind = "scalar" /\ ~opts.renameScalars
              THEN undefined
              ELSE LET newName == Renamer(r, type.name)
                   IN  IF newName # undefined /\ newName # type.name
                       THEN newName
                       ELSE undefined

\* transformSchema over the types in map order: the renamed types and the
\* reverse map the visitor fills in
RECURSIVE VisitTypes(_, _, _, _, _)
VisitTypes(r, opts, i, schema, reverse) ==
    IF i > Len(OriginalTypes)
    THEN [schema |-> schema, reverseMap |-> reverse]
    ELSE Bind(VisitType(r, opts, OriginalTypes[i]), LAMBDA newName :
         IF newName = undefined
         THEN Bind(Append(schema, OriginalTypes[i]), LAMBDA s :
                   VisitTypes(r, opts, i + 1, s, reverse))
         ELSE Bind(Append(schema, [OriginalTypes[i] EXCEPT !.name = newName]), LAMBDA s :
              Bind(Set(reverse, newName, OriginalTypes[i].name), LAMBDA m :
                   VisitTypes(r, opts, i + 1, s, m))))

\* transformRequest: every NamedType node whose name is in the reverse map
RenameRequest(reverse, names) ==
    [i \in 1..Len(names) |->
        IF HasKey(reverse, names[i]) THEN Get(reverse, names[i]) ELSE names[i]]

(***************************************************************************)
(* Result data: a leaf [tag |-> "leaf", s], null, or an object / array     *)
(* with its entries [k, v] in key order.                                   *)
(***************************************************************************)
Leaf(s) == [tag |-> "leaf", s |-> s, kids |-> <<>>]

Null == [tag |-> "null", s |-> "", kids |-> <<>>]

Node(tag, kids) == [tag |-> tag, s |-> "", kids |-> kids]

Entry(k, v) == [k |-> k, v |-> v]

\* renameTypes(value, name)
RECURSIVE renameTypes(_, _, _)
renameTypes(r, value, name) ==
    IF name = "__typename"
    THEN Leaf(Renamer(r, value.s))
    ELSE IF value.tag \in {"object", "array"}
         THEN Node(value.tag,
                   [i \in 1..Len(value.kids) |->
                       Entry(value.kids[i].k,
                             renameTypes(r, value.kids[i].v, value.kids[i].k))])
         ELSE value

\* transformResult
RenameResult(r, data) == IF data.tag = "null" THEN data ELSE renameTypes(r, data, "data")

\* The data of a result of the original schema: { __typename?, node: {
\* __typename, id, items: [ { __typename }, "B" ] } }
ResultData(withRoot, t1, t2) ==
    Node("object",
         (IF withRoot THEN <<Entry("__typename", Leaf("Query"))>> ELSE <<>>) \o
         << Entry("node", Node("object",
                << Entry("__typename", Leaf(t1)),
                   Entry("id", Leaf("A")),
                   Entry("items", Node("array",
                        << Entry("0", Node("object", <<Entry("__typename", Leaf(t2))>>)),
                           Entry("1", Leaf("B")) >>)) >>)) >>)

Results ==
    {Null} \cup {ResultData(w, t1, t2) : w \in BOOLEAN, t1 \in {"A", "B"}, t2 \in {"A", "B"}}

NoIO == [in |-> <<>>, out |-> <<>>]

RenameInit ==
    /\ renamer \in Renamers
    /\ rnOptions \in [renameBuiltins : BOOLEAN, renameScalars : BOOLEAN]
    /\ reverseMap = <<>>
    /\ newSchema = <<>>
    /\ rnRequest = NoIO
    /\ rnResult = [in |-> Null, out |-> Null]
    /\ rnpc = "schema"

\* new RenameTypes(renamer, options).transformSchema(originalSchema)
TransformSchema ==
    /\ rnpc = "schema"
    /\ \E v \in {VisitTypes(renamer, rnOptions, 1, <<>>, <<>>)} :
          /\ newSchema' = v.schema
          /\ reverseMap' = v.reverseMap
    /\ rnpc' = "request"
    /\ UNCHANGED <<renamer, rnOptions, rnRequest, rnResult>>
    /\ UNCHANGED notRename

\* transformRequest of a request written against the renamed schema
TransformRequest ==
    /\ rnpc = "request"
    /\ \E n \in 1..MaxNames :
       \E names \in [1..n -> {newSchema[i].name : i \in 1..Len(newSchema)}] :
          rnRequest' = [in |-> names, out |-> RenameRequest(reverseMap, names)]
    /\ rnpc' = "result"
    /\ UNCHANGED <<renamer, rnOptions, reverseMap, newSchema, rnResult>>
    /\ UNCHANGED notRename

\* transformResult of the result the original schema gave
TransformResult ==
    /\ rnpc = "result"
    /\ \E data \in Results :
          rnResult' = [in |-> data, out |-> RenameResult(renamer, data)]
    /\ rnpc' = "done"
    /\ UNCHANGED <<renamer, rnOptions, reverseMap, newSchema, rnRequest>>
    /\ UNCHANGED notRename

RenameNext == TransformSchema \/ TransformRequest \/ TransformResult

(***************************************************************************)
(* Properties of RenameTypes.                                              *)
(***************************************************************************)
Bijective(r) ==
    /\ \A n \in TypeNames : Renamer(r, n) # undefined
    /\ \A n, m \in TypeNames : Renamer(r, n) = Renamer(r, m) => n = m

\* the original name of the type the renamed schema calls n
OriginalName(n) ==
    OriginalTypes[CHOOSE i \in 1..Len(newSchema) : newSchema[i].name = n].name

\* the name the renamed schema gives the type originally called n
NewName(n) ==
    newSchema[CHOOSE i \in 1..Len(OriginalTypes) : OriginalTypes[i].name = n].name

\* data with every __typename value replaced by the type's name in the
\* renamed schema, and nothing else changed
RECURSIVE InRenamedSchema(_, _)
InRenamedSchema(value, name) ==
    IF name = "__typename"
    THEN Leaf(NewName(value.s))
    ELSE IF value.tag \in {"object", "array"}
         THEN Node(value.tag,
                   [i \in 1..Len(value.kids) |->
                       Entry(value.kids[i].k,
                             InRenamedSchema(value.kids[i].v, value.kids[i].k))])
         ELSE value

\* C8: for a bijective renamer, transformRequest maps every type name of a
\* request written against the renamed schema back to the original name of
\* that type, and transformResult turns every __typename value into the name
\* the renamed schema gives that type and changes nothing else.
C8_RenameRoundTrip ==
    (rnpc = "done" /\ Bijective(renamer)) =>
        /\ \A i \in 1..Len(rnRequest.in) :
              rnRequest.out[i] = OriginalName(rnRequest.in[i])
        /\ rnResult.out = InRenamedSchema(rnResult.in, "data")

\* every __typename value of the output is the value of the input, or the
\* name transformSchema gave the type of that name; the rest has the shape
\* of the input
RECURSIVE OnlyRenamed(_, _, _)
OnlyRenamed(in, out, name) ==
    IF name = "__typename"
    THEN out.s # in.s => out.s = NewName(in.s)
    ELSE IF in.tag \in {"object", "array"}
         THEN /\ out.tag = in.tag
              /\ Len(out.kids) = Len(in.kids)
              /\ \A i \in 1..Len(in.kids) :
                    /\ out.kids[i].k = in.kids[i].k
                    /\ OnlyRenamed(in.kids[i].v, out.kids[i].v, in.kids[i].k)
         ELSE out = in

\* C30: transformResult rewrites a __typename value v to w only if
\* transformSchema renamed the type v to w: the name of a type the schema
\* transform leaves unchanged (a root type, a name for which the renamer
\* returns nothing or the same name) is left unchanged in results.
C30_ResultRenamesOnlyRenamedTypes ==
    rnpc = "done" => OnlyRenamed(rnResult.in, rnResult.out, "data")

(***************************************************************************)
(* handleNull.  A path segment is a field name or a list index; an error   *)
(* is [id, hasPath, path]; field names are GraphQL names, so none of them  *)
(* reads as an integer.                                                    *)
(***************************************************************************)
MaxErrors == 2

Str(s) == [num |-> FALSE, s |-> s, n |-> 0]

Num(n) == [num |-> TRUE, s |-> "", n |-> n]

Digits == <<"0", "1">>

\* the property key a path segment becomes (String(segment))
KeyOf(seg) == IF seg.num THEN Digits[seg.n + 1] ELSE seg.s

\* parseInt(pathSegment, 10)
ParseInt(k) == CHOOSE n \in 0..(Len(Digits) - 1) : Digits[n + 1] = k

IsIntegerKey(k) == \E n \in 1..Len(Digits) : Digits[n] = k

GraphQLError(id, hasPath, path) == [id |-> id, hasPath |-> hasPath, path |-> path]

\* relocatedError(originalError, nodes, path); of lists the errors it stands for
RelocatedError(of, nodes, path) ==
    [tag |-> "error", of |-> of, nodes |-> nodes, path |-> path, kids |-> <<>>]

\* combineErrors(errors): one error that stands for all of them
CombineErrors(errors) == [i \in 1..Len(errors) |-> errors[i].id]

NullValue == [tag |-> "null", of |-> <<>>, nodes |-> "", path |-> <<>>, kids |-> <<>>]

Composite(tag, kids) == [tag |-> tag, of |-> <<>>, nodes |-> "", path |-> <<>>, kids |-> kids]

\* Object.keys(record): integer keys in ascending order, then the other keys
\* in insertion order
RECURSIVE InsertionOrder(_, _, _)
InsertionOrder(errors, i, ks) ==
    IF i > Len(errors)
    THEN ks
    ELSE LET k == KeyOf(errors[i].path[2])
         IN  IF errors[i].hasPath /\ Len(errors[i].path) >= 2
                /\ ~IsIntegerKey(k) /\ \A j \in 1..Len(ks) : ks[j] # k
             THEN Bind(Append(ks, k), LAMBDA added : InsertionOrder(errors, i + 1, added))
             ELSE InsertionOrder(errors, i + 1, ks)

ObjectKeys(errors) ==
    SelectSeq(Digits, LAMBDA d :
        \E i \in 1..Len(errors) :
            /\ errors[i].hasPath /\ Len(errors[i].path) >= 2
            /\ KeyOf(errors[i].path[2]) = d)
    \o InsertionOrder(errors, 1, <<>>)

\* getErrorsByPathSegment(errors)[k]: the errors whose second path segment is
\* k, each relocated to its path without the first segment
ErrorsByPathSegment(errors, k) ==
    LET mine == SelectSeq(errors, LAMBDA e :
                    e.hasPath /\ Len(e.path) >= 2 /\ KeyOf(e.path[2]) = k)
    IN  [i \in 1..Len(mine) |-> GraphQLError(mine[i].id, TRUE, Tail(mine[i].path))]

\* Mutant of HasShortPath: all errors, not some error.
HasShortPathEvery(errors) ==
    \A i \in 1..Len(errors) : ~errors[i].hasPath \/ Len(errors[i].path) < 2

\* errors.some(error => !error.path || error.path.length < 2)
HasShortPath(errors) ==
    \E i \in 1..Len(errors) : ~errors[i].hasPath \/ Len(errors[i].path) < 2

\* errors.some(error => typeof error.path[1] === 'string')
HasStringSegment(errors) ==
    \E i \in 1..Len(errors) : Len(errors[i].path) >= 2 /\ ~errors[i].path[2].num

RECURSIVE handleNull(_, _, _)

\* the list branch: result.push(handleNull(...)) for each key in turn
PushAll(fieldNodes, path, errors) ==
    Bind(ObjectKeys(errors), LAMBDA ks :
         Composite("array",
             [i \in 1..Len(ks) |->
                 Entry(Digits[i],
                       handleNull(fieldNodes, Append(path, Num(ParseInt(ks[i]))),
                                  ErrorsByPathSegment(errors, ks[i])))]))

\* the object branch: result[pathSegment] = handleNull(...)
AssignAll(fieldNodes, path, errors) ==
    Bind(ObjectKeys(errors), LAMBDA ks :
         Composite("object",
             [i \in 1..Len(ks) |->
                 Entry(ks[i],
                       handleNull(fieldNodes, Append(path, Str(ks[i])),
                                  ErrorsByPathSegment(errors, ks[i])))]))

handleNull(fieldNodes, path, errors) ==
    IF Len(errors) > 0
    THEN IF HasShortPath(errors)
         THEN RelocatedError(CombineErrors(errors), fieldNodes, path)
         ELSE IF HasStringSegment(errors)
              THEN AssignAll(fieldNodes, path, errors)
              ELSE PushAll(fieldNodes, path, errors)
    ELSE NullValue

FieldNodes == "fieldNodes"

Segments == {Str("a"), Str("b"), Num(0), Num(1)}

\* the paths an upstream error can carry: the delegated field, then up to two
\* more segments
ErrorPaths ==
    {<<Str("f")>> \o tail :
        tail \in {<<>>} \cup [1..1 -> Segments] \cup [1..2 -> Segments]}

\* an upstream error: one with no path, or one with a path
UpstreamErrors ==
    {[hasPath |-> FALSE, path |-> <<>>]} \cup
    {[hasPath |-> TRUE, path |-> p] : p \in ErrorPaths}

\* handleResult calls with the response path of the field, handleListMember
\* with that path and the index of the member
NullInit ==
    /\ \E n \in 0..MaxErrors :
       \E es \in [1..n -> UpstreamErrors] :
          hnErrors = [i \in 1..n |-> GraphQLError(i, es[i].hasPath, es[i].path)]
    /\ hnPath \in {<<Str("r")>>, <<Str("r"), Num(0)>>}
    /\ hnResult = NullValue
    /\ hnpc = "call"

HandleNull ==
    /\ hnpc = "call"
    /\ hnResult' = handleNull(FieldNodes, hnPath, hnErrors)
    /\ hnpc' = "done"
    /\ UNCHANGED <<hnErrors, hnPath>>
    /\ UNCHANGED notNull

NullNext == HandleNull

(***************************************************************************)
(* Properties of handleNull.                                               *)
(***************************************************************************)
\* how many times the error id occurs in the value v
RECURSIVE Occurrences(_, _)
RECURSIVE OccurrencesIn(_, _, _)
Occurrences(v, id) ==
    IF v.tag = "error"
    THEN Cardinality({i \in 1..Len(v.of) : v.of[i] = id})
    ELSE OccurrencesIn(v.kids, 1, id)

OccurrencesIn(kids, i, id) ==
    IF i > Len(kids)
    THEN 0
    ELSE Occurrences(kids[i].v, id) + OccurrencesIn(kids, i + 1, id)

\* the value at the nested position the segments spell; null when absent
RECURSIVE At(_, _)
At(v, segs) ==
    IF segs = <<>>
    THEN v
    ELSE IF \E i \in 1..Len(v.kids) : v.kids[i].k = KeyOf(Head(segs))
         THEN At(v.kids[CHOOSE i \in 1..Len(v.kids) : v.kids[i].k = KeyOf(Head(segs))].v,
                 Tail(segs))
         ELSE NullValue

AllLocalizable ==
    /\ Len(hnErrors) > 0
    /\ \A i \in 1..Len(hnErrors) : hnErrors[i].hasPath /\ Len(hnErrors[i].path) >= 2

\* C9: when every upstream error has a path of two segments or more, the
\* value handleNull returns holds each error exactly once, at the position
\* spelled by the error's path after its first segment, and the relocated
\* path is the response path followed by those segments.
C9_EachErrorOnceAtItsPath ==
    (hnpc = "done" /\ AllLocalizable) =>
        \A i \in 1..Len(hnErrors) :
            LET rest == Tail(hnErrors[i].path)
                at == At(hnResult, rest)
            IN  /\ Occurrences(hnResult, hnErrors[i].id) = 1
                /\ at.tag = "error"
                /\ at.of = <<hnErrors[i].id>>
                /\ at.path = hnPath \o rest

\* C10: handleNull returns null when there are no errors; when some error
\* has no path or a path of fewer than two segments it returns one error
\* that combines all the errors, bound to the field nodes and the response
\* path, and no nested structure.
C10_NullOrOneCombinedError ==
    hnpc = "done" =>
        /\ Len(hnErrors) = 0 => hnResult = NullValue
        /\ (\E i \in 1..Len(hnErrors) :
                ~hnErrors[i].hasPath \/ Len(hnErrors[i].path) < 2) =>
                    /\ hnResult.tag = "error"
                    /\ hnResult.of = [i \in 1..Len(hnErrors) |-> hnErrors[i].id]
                    /\ hnResult.nodes = FieldNodes
                    /\ hnResult.path = hnPath
                    /\ hnResult.kids = <<>>

C10_Witness ==
    /\ hnpc = "done"
    /\ Len(hnErrors) >= 2
    /\ \E i \in 1..Len(hnErrors) : hnErrors[i].hasPath /\ Len(hnErrors[i].path) = 1
    /\ \E i \in 1..Len(hnErrors) : hnErrors[i].hasPath /\ Len(hnErrors[i].path) >= 2
    /\ hnResult.tag = "error"
    /\ Len(hnResult.of) = Len(hnErrors)

\* the relocated paths of the errors the value v holds
RECURSIVE PathsIn(_)
PathsIn(v) ==
    IF v.tag = "error"
    THEN {v.path}
    ELSE UNION {PathsIn(v.kids[i].v) : i \in DOMAIN v.kids}

\* every error has a list index as the second segment of its path
AllListIndices ==
    /\ AllLocalizable
    /\ \A i \in 1..Len(hnErrors) : hnErrors[i].path[2].num

\* C27: in the list branch of handleNull the rebuilt array holds the
\* sub-structure for list index i at array position i: every error below
\* position i of the array has a relocated path that continues the response
\* path with the index i.
C27_ArrayPositionIsListIndex ==
    (hnpc = "done" /\ AllListIndices) =>
        /\ hnResult.tag = "array"
        /\ \A i \in DOMAIN hnResult.kids :
              \A p \in PathsIn(hnResult.kids[i].v) :
                  /\ Len(p) > Len(hnPath)
                  /\ p[Len(hnPath) + 1] = Num(i - 1)

\* some errors have a field name and others a list index as the second
\* segment of their path
Ambiguous ==
    /\ AllLocalizable
    /\ \E i \in 1..Len(hnErrors) : hnErrors[i].path[2].num
    /\ \E i \in 1..Len(hnErrors) : ~hnErrors[i].path[2].num

\* C28: when some errors have a field name and others a list index as
\* their second path segment, handleNull returns one error that combines
\* all of them, bound to the field nodes and the response path, and builds
\* no object or array.
C28_AmbiguousErrorsCombined ==
    (hnpc = "done" /\ Ambiguous) =>
        /\ hnResult.tag = "error"
        /\ hnResult.of = [i \in 1..Len(hnErrors) |-> hnErrors[i].id]
        /\ hnResult.nodes = FieldNodes
        /\ hnResult.path = hnPath

(***************************************************************************)
(* The result reconciler: checkResultAndHandleErrors / handleResult /       *)
(* handleList / handleListMember / handleObject on the non-merging path     *)
(* (skipTypeMerging, no merge info, or a type that is not merged).          *)
(* A raw value is null, a leaf, a reference to an object of the raw result  *)
(* or a list; the objects carry the hidden annotations.                     *)
(***************************************************************************)
MaxItems == 2

LeafType == [kind |-> "leaf"]

CompositeType == [kind |-> "composite"]

ListType(ofType) == [kind |-> "list", ofType |-> ofType]

RawLeaf(s) == [tag |-> "leaf", s |-> s, parsed |-> FALSE]

RawObject(id) == [tag |-> "ref", id |-> id]

RawList(items) == [tag |-> "list", items |-> items]

\* an object of the raw result before anything is attached to it
Plain == [annotated |-> FALSE, errors |-> <<>>, subschema |-> ""]

\* setErrors(object, errors); setObjectSubschema(object, subschema)
Annotated(errors, subschema) ==
    [annotated |-> TRUE, errors |-> errors, subschema |-> subschema]

\* type.parseValue(result)
ParseValue(v) == [v EXCEPT !.parsed = TRUE]

ResponsePath == <<Str("r")>>

Subschema == "subschema"

\* handleObject: the errors relocated to their paths without the first segment
RelocateAll(errors) ==
    [i \in 1..Len(errors) |->
        GraphQLError(errors[i].id, errors[i].hasPath,
                     IF errors[i].hasPath /\ Len(errors[i].path) > 0
                     THEN Tail(errors[i].path)
                     ELSE errors[i].path)]

\* handleObject without type merging: annotates the object and returns it
handleObject(object, errors, objects) ==
    [v |-> object,
     objects |-> [objects EXCEPT ![object.id] = Annotated(RelocateAll(errors), Subschema)]]

\* Mutant of ChildErrors: every member is given all the errors of the list.
ChildErrorsAll(errors, index) == ErrorsByPathSegment(errors, Digits[1])
    \o ErrorsByPathSegment(errors, Digits[2])

\* childErrors[index] || []
ChildErrors(errors, index) ==
    IF index < Len(Digits) THEN ErrorsByPathSegment(errors, Digits[index + 1]) ELSE <<>>

RECURSIVE handleList(_, _, _, _)
RECURSIVE MapMembers(_, _, _, _, _, _)

\* handleListMember(type, listMember, index, errors, ...)
handleListMember(type, listMember, index, errors, objects) ==
    IF listMember.tag = "null"
    THEN [v |-> handleNull(FieldNodes, Append(ResponsePath, Num(index)), errors),
          objects |-> objects]
    ELSE CASE type.kind = "leaf" -> [v |-> ParseValue(listMember), objects |-> objects]
           [] type.kind = "composite" -> handleObject(listMember, errors, objects)
           [] type.kind = "list" -> handleList(type, listMember, errors, objects)

\* list.map((listMember, index) => handleListMember(...)), member by member
MapMembers(type, list, errors, i, out, objects) ==
    IF i > Len(list.items)
    THEN [v |-> RawList(out), objects |-> objects]
    ELSE Bind(handleListMember(type.ofType, list.items[i], i - 1,
                               ChildErrors(errors, i - 1), objects), LAMBDA m :
         Bind(Append(out, m.v), LAMBDA done :
              MapMembers(type, list, errors, i + 1, done, m.objects)))

handleList(type, list, errors, objects) == MapMembers(type, list, errors, 1, <<>>, objects)

\* handleResult(result, errors, subschema, context, info, returnType)
handleResult(type, result, errors, objects) ==
    IF result.tag = "null"
    THEN [v |-> handleNull(FieldNodes, ResponsePath, errors), objects |-> objects]
    ELSE CASE type.kind = "leaf" -> [v |-> ParseValue(result), objects |-> objects]
           [] type.kind = "composite" -> handleObject(result, errors, objects)
           [] type.kind = "list" -> handleList(type, result, errors, objects)

\* checkResultAndHandleErrors(result, context, info, responseKey, subschema)
checkResultAndHandleErrors(type, data, errors, objects) ==
    handleResult(type, data, errors, objects)

(***************************************************************************)
(* The raw results the reconciler is run on.  An object is identified by   *)
(* its place: the top-level object is 0, member i (from 1) of a list at    *)
(* place p is p * (MaxItems + 1) + i.  Inner lists have one member.        *)
(***************************************************************************)
ReturnTypes ==
    {LeafType, CompositeType, ListType(LeafType), ListType(CompositeType),
     ListType(ListType(CompositeType))}

ObjectIds == 0..((MaxItems + 1) * (MaxItems + 1) + MaxItems)

RECURSIVE RawValues(_, _, _)
RECURSIVE RawMembers(_, _, _)
\* the sequences of n members of a list of the type at place p
RawMembers(type, p, n) ==
    IF n = 0
    THEN {<<>>}
    ELSE {Append(ms, m) : ms \in RawMembers(type, p, n - 1),
                          m \in RawValues(type.ofType, p * (MaxItems + 1) + n, FALSE)}

\* the raw values of a type at place p
RawValues(type, p, top) ==
    {NullValue} \cup
    CASE type.kind = "leaf" -> {RawLeaf("v")}
      [] type.kind = "composite" -> {RawObject(p)}
      [] type.kind = "list" ->
            {RawList(ms) : ms \in UNION {RawMembers(type, p, n) :
                                n \in IF top THEN 0..MaxItems ELSE {1}}}

\* the errors of a raw result: no path, or the field then indices and names
ResultErrorPaths ==
    { <<Str("f")>>, <<Str("f"), Num(0)>>, <<Str("f"), Num(1)>>,
      <<Str("f"), Num(0), Str("a")>>, <<Str("f"), Num(1), Num(0)>>,
      <<Str("f"), Num(0), Num(0)>> }

ResultErrors ==
    {[hasPath |-> FALSE, path |-> <<>>]} \cup
    {[hasPath |-> TRUE, path |-> p] : p \in ResultErrorPaths}

ResultInit ==
    /\ crType \in ReturnTypes
    /\ crData \in RawValues(crType, 0, TRUE)
    /\ \E n \in 0..MaxErrors :
       \E es \in [1..n -> ResultErrors] :
          crErrors = [i \in 1..n |-> GraphQLError(i, es[i].hasPath, es[i].path)]
    /\ crObjects = [id \in ObjectIds |-> Plain]
    /\ crReturn = NullValue
    /\ crpc = "call"

CheckResultAndHandleErrors ==
    /\ crpc = "call"
    /\ \E r \in {checkResultAndHandleErrors(crType, crData, crErrors, crObjects)} :
          /\ crReturn' = r.v
          /\ crObjects' = r.objects
    /\ crpc' = "done"
    /\ UNCHANGED <<crType, crData, crErrors>>
    /\ UNCHANGED notResult

ResultNext == CheckResultAndHandleErrors

(***************************************************************************)
(* Properties of the result reconciler.                                    *)
(***************************************************************************)
\* the ids of the upstream errors whose leading index (the segment after the
\* list field) is index
ErrorsOfIndex(index) ==
    {crErrors[i].id : i \in {j \in 1..Len(crErrors) :
        /\ crErrors[j].hasPath
        /\ Len(crErrors[j].path) >= 2
        /\ crErrors[j].path[2] = Num(index)}}

\* the ids of the errors a returned value carries: in the structure handleNull
\* built, in the annotation of an object, in the members of a list
RECURSIVE Carried(_)
Carried(v) ==
    CASE v.tag = "error" -> {v.of[i] : i \in 1..Len(v.of)}
      [] v.tag \in {"object", "array"} ->
            UNION {Carried(v.kids[i].v) : i \in 1..Len(v.kids)}
      [] v.tag = "ref" ->
            {crObjects[v.id].errors[i].id : i \in 1..Len(crObjects[v.id].errors)}
      [] v.tag = "list" -> UNION {Carried(v.items[i]) : i \in 1..Len(v.items)}
      [] OTHER -> {}

\* the returned value out stands for the raw value in
SameElement(in, out) ==
    CASE in.tag = "leaf" -> out = ParseValue(in)
      [] in.tag = "ref" -> out = in
      [] in.tag = "list" -> out.tag = "list" /\ Len(out.items) = Len(in.items)
      [] OTHER -> out.tag \in {"null", "error", "object", "array"}

ListReconciled == crpc = "done" /\ crType.kind = "list" /\ crData.tag = "list"

\* C11: handleList returns a list of the same length and order as the raw
\* list; element i stands for raw element i and carries the errors whose
\* leading path index is i and no error of another element.
C11_ListElementsKeepTheirErrors ==
    ListReconciled =>
        /\ crReturn.tag = "list"
        /\ Len(crReturn.items) = Len(crData.items)
        /\ \A i \in 1..Len(crData.items) :
              /\ SameElement(crData.items[i], crReturn.items[i])
              /\ Carried(crReturn.items[i]) \subseteq ErrorsOfIndex(i - 1)
              /\ crData.items[i].tag \in {"null", "ref"} =>
                    Carried(crReturn.items[i]) = ErrorsOfIndex(i - 1)

C11_Witness ==
    /\ ListReconciled
    /\ Len(crData.items) = 2
    /\ crData.items[1].tag = "ref"
    /\ crData.items[2].tag = "null"
    /\ ErrorsOfIndex(0) # {}
    /\ ErrorsOfIndex(1) # {}
    /\ crReturn.items[2].tag # "null"

\* C12: checkResultAndHandleErrors leaves the raw execution result as it
\* was: its data, every object in it and its errors; the annotations are not
\* on the objects of the raw result.
C12_RawResultUnchanged ==
    crpc = "done" => \A id \in ObjectIds : crObjects[id] = Plain

(***************************************************************************)
(* Selection sets.                                                         *)
(***************************************************************************)
\* selections: a field node has a response key (alias), a name and its own
\* selections; a fragment spread stands for the selections of its fragment
FieldNode(alias, name, kids) == [tag |-> "field", alias |-> alias, name |-> name, kids |-> kids]

FragmentSpread(kids) == [tag |-> "spread", alias |-> "", name |-> "", kids |-> kids]

\* collectFields: the field nodes of a selection set, fragments spread out
\* (fragments hold fields only)
RECURSIVE collectFields(_)
collectFields(selections) ==
    IF selections = <<>> THEN <<>>
    ELSE (IF Head(selections).tag = "spread" THEN Head(selections).kids
          ELSE <<Head(selections)>>) \o collectFields(Tail(selections))

(***************************************************************************)
(* Type merging at run time: handleObject hands an object of a merged type *)
(* to mergeFields, which fetches the fields its originating subschema does *)
(* not have from the other subschemas of the type.                         *)
(***************************************************************************)
MaxKeys == 2

\* the subschemas in the order they were registered with mergeSchemas
Subschemas == <<"A", "B", "C">>

SubschemaNames == {Subschemas[i] : i \in DOMAIN Subschemas}

\* the position of a subschema in the registration order
RegistrationOrder(s) == CHOOSE i \in DOMAIN Subschemas : Subschemas[i] = s

\* selectionSet: '{ id }' of every merge configuration
KeySelection == {"id"}

MergedFieldNames == {"id", "x", "a", "b", "c"}

\* a field the object does not have
Missing == [from |-> "none", id |-> 0]

\* the value a subschema resolves for any field of the object with the given id
ValueFrom(s, id) == [from |-> s, id |-> id]

Present(object) == {f \in MergedFieldNames : object[f] # Missing}

\* createMergeInfo: the subschemas of the merged type in candidate order, and
\* for every field the subschemas that support it
MergedSubschemas(types) == SelectSeq(Subschemas, LAMBDA s : types[s] # {})

SupportedBySubschemas(types, fieldName) ==
    SelectSeq(MergedSubschemas(types), LAMBDA s : fieldName \in types[s])

createMergeInfo(types) ==
    [subschemas |-> MergedSubschemas(types),
     uniqueFields |-> {f \in MergedFieldNames : Len(SupportedBySubschemas(types, f)) = 1},
     nonUniqueFields |-> {f \in MergedFieldNames : Len(SupportedBySubschemas(types, f)) > 1},
     fields |-> [f \in MergedFieldNames |-> SupportedBySubschemas(types, f)]]

\* the request sent to the originating subschema: the client's selection with
\* the key selection of the merged type added, restricted to the fields the
\* subschema has
OriginResult(types, origin, selection, id) ==
    [f \in MergedFieldNames |->
        IF f \in (selection \cup KeySelection) \cap types[origin]
        THEN ValueFrom(origin, id) ELSE Missing]

\* the client's selection on the object as the field nodes of info: all of
\* it in one field node, the part after the first field in a fragment, or
\* two field nodes of which the second repeats the first field
MergedFieldOrder == <<"id", "x", "a", "b", "c">>

Leaves(selection) ==
    Bind(SelectSeq(MergedFieldOrder, LAMBDA f : f \in selection), LAMBDA names :
         [i \in 1..Len(names) |-> FieldNode(names[i], names[i], <<>>)])

FieldNodesOf(selection, shape) ==
    Bind(Leaves(selection), LAMBDA leaves :
         CASE shape = "fragment" ->
                <<FieldNode("t", "t", <<Head(leaves), FragmentSpread(Tail(leaves))>>)>>
           [] shape = "nodes" ->
                <<FieldNode("t", "t", <<Head(leaves)>>), FieldNode("t", "t", leaves)>>
           [] OTHER -> <<FieldNode("t", "t", leaves)>>)

SelectionShapes == {"direct", "fragment", "nodes"}

\* the names of a sequence of selections
NamesOf(selections) == {selections[i].name : i \in 1..Len(selections)}

\* mutant of OutstandingSelections: keeps the fields the originating subschema has
RECURSIVE OutstandingSelectionsKnown(_, _, _)
OutstandingSelectionsKnown(types, origin, fieldNodes) ==
    IF fieldNodes = <<>> THEN <<>>
    ELSE SelectSeq(collectFields(Head(fieldNodes).kids), LAMBDA sel : sel.name \in types[origin])
         \o OutstandingSelectionsKnown(types, origin, Tail(fieldNodes))

\* mutant of OutstandingSelections: only the first field node is looked at
OutstandingSelectionsFirstNode(types, origin, fieldNodes) ==
    IF fieldNodes = <<>> THEN <<>>
    ELSE SelectSeq(collectFields(Head(fieldNodes).kids), LAMBDA sel : sel.name \notin types[origin])

\* handleObject: the selections of every field node, fragments spread out,
\* that name a field the originating subschema does not have
RECURSIVE OutstandingSelections(_, _, _)
OutstandingSelections(types, origin, fieldNodes) ==
    IF fieldNodes = <<>> THEN <<>>
    ELSE SelectSeq(collectFields(Head(fieldNodes).kids), LAMBDA sel : sel.name \notin types[origin])
         \o OutstandingSelections(types, origin, Tail(fieldNodes))

\* mutant of OtherSubschemas: the originating subschema is not left out
OtherSubschemasAll(mergedTypeInfo, origin) == mergedTypeInfo.subschemas

\* handleObject: the other subschemas of the merged type
OtherSubschemas(mergedTypeInfo, origin) ==
    SelectSeq(mergedTypeInfo.subschemas, LAMBDA s : s # origin)

\* mergeFields: one delegated query for every other subschema that has an
\* outstanding field and whose key selection the object satisfies
Delegation(s, object, fields) ==
    [subschema |-> s, key |-> object["id"].id, fields |-> fields]

Proxiable(types, object, selections, s) ==
    /\ KeySelection \subseteq Present(object)
    /\ selections \cap types[s] # {}

RECURSIVE Delegations(_, _, _, _)
Delegations(types, object, selections, subschemas) ==
    IF subschemas = <<>> THEN <<>>
    ELSE LET s == Head(subschemas)
             rest == Delegations(types, object, selections, Tail(subschemas))
         IN  IF Proxiable(types, object, selections, s)
             THEN <<Delegation(s, object, selections \cap types[s])>> \o rest
             ELSE rest

\* the answer of the merge resolver of a subschema: the key and the fields
\* asked, as far as the subschema has them
ProxiedResult(types, d) ==
    [f \in MergedFieldNames |->
        IF f \in (d.fields \cup KeySelection) \cap types[d.subschema] /\ d.key # 0
        THEN ValueFrom(d.subschema, d.key) ELSE Missing]

\* the errors of a delegated query: a field the subschema does not have, or
\* an object it cannot look up
ProxiedErrors(types, d) ==
    {[subschema |-> d.subschema, field |-> f] :
        f \in (d.fields \ types[d.subschema]) \cup (IF d.key = 0 THEN KeySelection ELSE {})}

\* mergeFields: a returned field is taken unless the object already has one
MergeProxiedResult(object, patch) ==
    [f \in MergedFieldNames |-> IF object[f] # Missing THEN object[f] ELSE patch[f]]

RECURSIVE MergeProxiedResults(_, _, _)
MergeProxiedResults(types, object, delegations) ==
    IF delegations = <<>> THEN object
    ELSE MergeProxiedResults(types,
                             MergeProxiedResult(object, ProxiedResult(types, Head(delegations))),
                             Tail(delegations))

\* nothing handed to mergeFields: handleObject returns the object
NotMerged == [passed |-> <<>>, delegations |-> <<>>]

\* handleObject for an object, from the skipTypeMerging test on: what it
\* hands to mergeFields and the delegated queries mergeFields issues
handleMergedObject(types, origin, fieldNodes, object, info) ==
    IF info.skipTypeMerging \/ ~info.mergeInfo THEN NotMerged
    ELSE IF ~info.merged THEN NotMerged
    ELSE Bind(OtherSubschemas(createMergeInfo(types), origin), LAMBDA subschemas :
         IF subschemas = <<>> THEN NotMerged
         ELSE Bind(OutstandingSelections(types, origin, fieldNodes), LAMBDA selections :
              [passed |-> <<[subschemas |-> subschemas, selections |-> selections]>>,
               delegations |-> Delegations(types, object, NamesOf(selections), subschemas)]))

\* mutant of MergeResolverInfo: the merge query is delegated without skipTypeMerging
MergeResolverInfoNoSkip(info) == info

\* the default resolve of a merged type configuration delegates with
\* skipTypeMerging: true, which reaches handleObject for the proxied result
MergeResolverInfo(info) == [info EXCEPT !.skipTypeMerging = TRUE]

\* the ways handleObject is called: type merging at work, skipped, without
\* merge info, or for a type that has no entry in mergedTypes
MergeInfos ==
    {[skipTypeMerging |-> FALSE, mergeInfo |-> TRUE, merged |-> TRUE],
     [skipTypeMerging |-> TRUE, mergeInfo |-> TRUE, merged |-> TRUE],
     [skipTypeMerging |-> FALSE, mergeInfo |-> FALSE, merged |-> TRUE],
     [skipTypeMerging |-> FALSE, mergeInfo |-> TRUE, merged |-> FALSE]}

TypesOfA == {{"id", "a"}, {"id", "a", "x"}}
TypesOfB == {{}, {"id", "b"}, {"id", "b", "x"}}
TypesOfC == {{}, {"id", "c"}, {"id", "c", "x"}, {"c"}}

MergeInit ==
    /\ \E a \in TypesOfA, b \in TypesOfB, c \in TypesOfC :
          mgTypes = [s \in SubschemaNames |->
                        IF s = "A" THEN a ELSE IF s = "B" THEN b ELSE c]
    /\ mgOrigin \in {s \in SubschemaNames : mgTypes[s] # {}}
    /\ mgSelection \in (SUBSET (MergedFieldNames \ KeySelection)) \ {{}}
    /\ \E id \in 1..MaxKeys :
          mgObject = OriginResult(mgTypes, mgOrigin, mgSelection, id)
    /\ mgPending = <<>>
    /\ mgDone = <<>>
    /\ mgErrors = {}
    /\ mgInfo \in MergeInfos
    /\ mgShape \in SelectionShapes
    /\ mgPassed = <<>>
    /\ mgpc = "raw"

\* handleObject is called with the object of the originating subschema
HandleObject ==
    /\ mgpc = "raw"
    /\ \E r \in {handleMergedObject(mgTypes, mgOrigin, FieldNodesOf(mgSelection, mgShape),
                                    mgObject, mgInfo)} :
          /\ mgPassed' = r.passed
          /\ mgPending' = r.delegations
          /\ mgpc' = IF r.delegations = <<>> THEN "done" ELSE "waiting"
    /\ UNCHANGED <<mgTypes, mgOrigin, mgSelection, mgObject, mgDone, mgErrors, mgInfo, mgShape>>
    /\ UNCHANGED notMerge

\* one of the delegated merge queries completes: its result goes through
\* handleObject, called as the merge resolver's delegation has it called
Complete ==
    /\ mgpc = "waiting"
    /\ \E i \in DOMAIN mgPending :
          /\ \A j \in DOMAIN mgDone : mgDone[j] # i
          /\ mgDone' = Append(mgDone, i)
          /\ mgErrors' = mgErrors \cup ProxiedErrors(mgTypes, mgPending[i])
          /\ \E r \in {handleMergedObject(mgTypes, mgPending[i].subschema,
                                          FieldNodesOf(mgPending[i].fields \cup KeySelection, "direct"),
                                          ProxiedResult(mgTypes, mgPending[i]),
                                          MergeResolverInfo(mgInfo))} :
                /\ mgPassed' = mgPassed \o r.passed
                /\ mgPending' = mgPending \o r.delegations
    /\ UNCHANGED <<mgTypes, mgOrigin, mgSelection, mgObject, mgInfo, mgShape, mgpc>>
    /\ UNCHANGED notMerge

\* all delegated merge queries have completed: their results are merged
MergeResults ==
    /\ mgpc = "waiting"
    /\ Len(mgDone) = Len(mgPending)
    /\ mgObject' = MergeProxiedResults(mgTypes, mgObject, mgPending)
    /\ mgpc' = "done"
    /\ UNCHANGED <<mgTypes, mgOrigin, mgSelection, mgPending, mgDone, mgErrors, mgInfo, mgShape, mgPassed>>
    /\ UNCHANGED notMerge

MergeNext == HandleObject \/ Complete \/ MergeResults

\* C13: an object of a type merged from two subschemas with key { id }, each
\* with one extra field of its own, reached through one of them with both
\* extra fields selected, ends with both fields populated, each by the
\* subschema that has it and for the object's own id, without errors, after
\* exactly one delegated query, sent to the other subschema with that id.
TwoSubschemaScenario ==
    /\ mgTypes["A"] = {"id", "a"}
    /\ mgTypes["B"] = {"id", "b"}
    /\ mgTypes["C"] = {}
    /\ mgSelection = {"a", "b"}
    /\ mgInfo = [skipTypeMerging |-> FALSE, mergeInfo |-> TRUE, merged |-> TRUE]

OtherOf(s) == IF s = "A" THEN "B" ELSE "A"

ExtraOf(s) == IF s = "A" THEN "a" ELSE "b"

C13_BothFieldsPopulated ==
    (mgpc = "done" /\ TwoSubschemaScenario) =>
        LET id == mgObject["id"].id
        IN  /\ mgObject["id"] = ValueFrom(mgOrigin, id)
            /\ mgObject["a"] = ValueFrom("A", id)
            /\ mgObject["b"] = ValueFrom("B", id)
            /\ mgErrors = {}
            /\ mgPending = <<[subschema |-> OtherOf(mgOrigin), key |-> id,
                              fields |-> {ExtraOf(OtherOf(mgOrigin))}]>>

C13_Witness ==
    /\ mgpc = "done"
    /\ TwoSubschemaScenario
    /\ mgOrigin = "A"
    /\ mgObject["b"] = ValueFrom("B", 2)
    /\ mgDone = <<1>>

\* C14: when A and B both have field x and A is registered first, the x of
\* the merged object comes from A, in whatever order the delegated queries
\* complete.
C14_SharedFieldFromFirstRegistered ==
    (/\ mgpc = "done"
     /\ mgInfo = [skipTypeMerging |-> FALSE, mergeInfo |-> TRUE, merged |-> TRUE]
     /\ "x" \in mgTypes["A"] \cap mgTypes["B"]
     /\ "x" \in mgSelection) =>
        mgObject["x"].from = "A"

\* the subschemas that have the type, in registration order, and those
\* among them that are not the originating subschema
Participants == SelectSeq(Subschemas, LAMBDA s : mgTypes[s] # {})

Others == SelectSeq(Participants, LAMBDA s : s # mgOrigin)

MergingOff ==
    \/ mgInfo.skipTypeMerging
    \/ ~mgInfo.mergeInfo
    \/ ~mgInfo.merged
    \/ Others = <<>>

\* C24: handleObject hands the object to mergeFields only with the
\* subschemas other than the originating one, in registration order, and
\* with skipTypeMerging set, without info.mergeInfo, for a type without a
\* mergedTypes entry or with the originating subschema as only participant
\* it hands nothing over, no merge query is issued and the object returned
\* is the object given.
C24_OnlyOtherSubschemas ==
    mgpc # "raw" =>
        IF MergingOff
        THEN /\ mgPassed = <<>>
             /\ mgPending = <<>>
             /\ mgpc = "done"
             /\ \E id \in 1..MaxKeys :
                   mgObject = OriginResult(mgTypes, mgOrigin, mgSelection, id)
        ELSE /\ mgPassed # <<>>
             /\ mgPassed[1].subschemas = Others
             /\ \A i \in DOMAIN mgPending : mgPending[i].subschema # mgOrigin
             /\ \A i, j \in DOMAIN mgPending :
                   i < j => RegistrationOrder(mgPending[i].subschema)
                              < RegistrationOrder(mgPending[j].subschema)

C24_Witness ==
    /\ mgpc = "done"
    /\ mgOrigin = "B"
    /\ mgPassed # <<>>
    /\ mgPassed[1].subschemas = <<"A", "C">>
    /\ Len(mgPending) = 2

\* C25: merging one object ends: every subschema other than the
\* originating one gets at most one merge query for the object, the
\* originating one none, and the result of a merge query, delegated with
\* skipTypeMerging, is not handed to mergeFields again.
C25_MergeQueriesBounded ==
    /\ Len(mgPassed) <= 1
    /\ Len(mgPending) <= Len(Others)
    /\ \A i \in DOMAIN mgPending : mgPending[i].subschema # mgOrigin
    /\ \A i, j \in DOMAIN mgPending :
          i # j => mgPending[i].subschema # mgPending[j].subschema

C25_Witness ==
    /\ mgpc = "done"
    /\ mgOrigin = "A"
    /\ Len(mgPassed) = 1
    /\ Len(mgPending) = 2
    /\ mgDone = <<2, 1>>
    /\ mgObject["b"].from = "B"
    /\ mgObject["c"].from = "C"

\* C26: the selections handleObject passes on are exactly the fields the
\* client requested on the object, in whatever field node or fragment, that
\* the originating subschema does not have: none of its own fields is asked
\* from another subschema and every field it lacks is passed on.
C26_OutstandingSelectionsExact ==
    mgPassed # <<>> =>
        /\ NamesOf(mgPassed[1].selections) = mgSelection \ mgTypes[mgOrigin]
        /\ \A i \in DOMAIN mgPending : mgPending[i].fields \cap mgTypes[mgOrigin] = {}

C26_Witness ==
    /\ mgpc = "done"
    /\ mgShape = "nodes"
    /\ mgOrigin = "A"
    /\ mgSelection = {"x", "a", "b", "c"}
    /\ "x" \in mgTypes["A"]
    /\ mgPassed # <<>>
    /\ NamesOf(mgPassed[1].selections) = {"b", "c"}

(***************************************************************************)
(* mergeSchemas: the type candidates of every schema-like argument are     *)
(* collected in registration order; root and merged types get the fields   *)
(* of all their candidates, every other name gets one candidate's type.    *)
(* Healing the type map (skipPruning) keeps names and fields and is left   *)
(* to the healer's own section.                                            *)
(***************************************************************************)
MaxSchemas == 2

SchemaTypeNames == {"Query", "T"}

SchemaFieldNames == {"f", "g"}

\* a schema-like object, by the fields it declares for every type name
\* ({} when it does not declare the type)
NoTypes == [n \in SchemaTypeNames |-> {}]

Shapes ==
    {[n \in SchemaTypeNames |-> IF n = "Query" THEN {"f"} ELSE {"f"}],
     [n \in SchemaTypeNames |-> IF n = "Query" THEN {"g"} ELSE {"f", "g"}],
     [n \in SchemaTypeNames |-> IF n = "Query" THEN {"f", "g"} ELSE {}]}

\* where a schema-like object was passed
Tag(arg, n) == [arg |-> arg, n |-> n]

NoSubschema == Tag("none", 0)

FreshTag == Tag("onTypeConflict", 0)

MergedTag == Tag("mergeFields", 0)

\* schemas = [...subschemas, typeDefs, types, ...schemaLikeObjects]
TagsOf(arg, shapes) == [i \in DOMAIN shapes |-> [tag |-> Tag(arg, i), shape |-> shapes[i]]]

Registered(args) ==
    TagsOf("subschemas", args.subschemas)
    \o (IF args.typeDefs # NoTypes THEN TagsOf("typeDefs", <<args.typeDefs>>) ELSE <<>>)
    \o TagsOf("types", <<args.types>>)
    \o TagsOf("schemas", args.schemas)

IsSubschema(tag) == tag.arg \in {"subschemas", "schemas"}

\* a named type of a schema-like object; a field definition is known by the
\* object it came from
NamedType(name, tag, fieldNames) ==
    [name |-> name, owner |-> tag, fields |-> [f \in fieldNames |-> tag]]

\* addTypeCandidate, for every schema-like object that declares the type
Candidate(source, name, merge) ==
    [type |-> NamedType(name, source.tag, source.shape[name]),
     subschema |-> IF IsSubschema(source.tag) THEN source.tag ELSE NoSubschema,
     merge |-> IF source.tag.arg = "subschemas" THEN merge ELSE {}]

RECURSIVE CandidatesOf(_, _, _)
CandidatesOf(sources, name, merge) ==
    IF sources = <<>> THEN <<>>
    ELSE LET rest == CandidatesOf(Tail(sources), name, merge)
         IN  IF Head(sources).shape[name] # {}
             THEN <<Candidate(Head(sources), name, merge)>> \o rest
             ELSE rest

typeCandidates(args, name) == CandidatesOf(Registered(args), name, args.merge)

CandidateNames(args) == {n \in SchemaTypeNames : typeCandidates(args, n) # <<>>}

\* createMergeInfo: the type names some candidate has a merge configuration for
mergedTypes(args) ==
    {n \in CandidateNames(args) :
        \E i \in DOMAIN typeCandidates(args, n) : n \in typeCandidates(args, n)[i].merge}

\* { ...acc, ...fields }
Spread(acc, fields) ==
    [f \in DOMAIN acc \cup DOMAIN fields |-> IF f \in DOMAIN fields THEN fields[f] ELSE acc[f]]

RECURSIVE ReduceFields(_, _)
ReduceFields(acc, candidates) ==
    IF candidates = <<>> THEN acc
    ELSE ReduceFields(Spread(acc, Head(candidates).type.fields), Tail(candidates))

\* mutant of mergeFields: a field keeps the first definition seen
RECURSIVE ReduceFieldsFirst(_, _)
ReduceFieldsFirst(acc, candidates) ==
    IF candidates = <<>> THEN acc
    ELSE ReduceFieldsFirst(Spread(Head(candidates).type.fields, acc), Tail(candidates))

mergeFieldsFirstWins(typeName, candidates) ==
    [name |-> typeName, owner |-> MergedTag, fields |-> ReduceFieldsFirst(<<>>, candidates)]

mergeFields(typeName, candidates) ==
    [name |-> typeName, owner |-> MergedTag, fields |-> ReduceFields(<<>>, candidates)]

\* the tie-break functions a caller may supply
OnTypeConflicts == {"left", "right", "wider", "fresh"}

onTypeConflict(fn, left, right) ==
    CASE fn = "left" -> left
      [] fn = "right" -> right
      [] fn = "wider" ->
            IF Cardinality(DOMAIN right.fields) > Cardinality(DOMAIN left.fields)
            THEN right ELSE left
      [] OTHER -> [name |-> left.name, owner |-> FreshTag,
                   fields |-> Spread(left.fields, right.fields)]

RECURSIVE ReduceCandidates(_, _, _)
ReduceCandidates(fn, prev, cands) ==
    IF cands = <<>> THEN prev
    ELSE LET next == Head(cands)
             type == onTypeConflict(fn, prev.type, next.type)
         IN  ReduceCandidates(fn,
                    IF prev.type = type THEN prev
                    ELSE IF next.type = type THEN next
                    ELSE [type |-> type, subschema |-> NoSubschema, merge |-> {}],
                    Tail(cands))

onTypeConflictToCandidateSelector(fn, cands) == ReduceCandidates(fn, Head(cands), Tail(cands))

\* mutant of DefaultCandidateSelector: the first candidate
DefaultCandidateSelectorFirst(cands) == cands[1]

\* cands => cands[cands.length - 1]
DefaultCandidateSelector(cands) == cands[Len(cands)]

candidateSelector(fn, cands) ==
    IF fn # "none" THEN onTypeConflictToCandidateSelector(fn, cands)
    ELSE DefaultCandidateSelector(cands)

IsRootName(typeName) == typeName \in {"Query", "Mutation", "Subscription"}

\* the type map, given the names whose candidates are merged
TypeMapOf(args, merged) ==
    [n \in CandidateNames(args) |->
        IF IsRootName(n) \/ n \in merged
        THEN mergeFields(n, typeCandidates(args, n))
        ELSE candidateSelector(args.onTypeConflict, typeCandidates(args, n)).type]

SeqsUpTo(S, n) == UNION {[1..k -> S] : k \in 0..n}

\* the merge mapping of every subschema configuration: for each type name
\* a merged type configuration, of which the resolve function is kept
\* ("absent" when the caller gave none)
MergeConfigs(subschemas, merge, resolve) ==
    [i \in DOMAIN subschemas |-> [n \in merge |-> [resolve |-> resolve]]]

\* createMergeInfo: every merged type candidate's configuration without a
\* resolve function is given the default one (mergedTypeConfig.resolve = ...)
createMergeInfoConfigs(args, configs) ==
    [i \in DOMAIN configs |->
        [n \in DOMAIN configs[i] |->
            IF /\ n \in DOMAIN args.subschemas[i]
               /\ args.subschemas[i][n] # {}
               /\ configs[i][n].resolve = "absent"
            THEN [configs[i][n] EXCEPT !.resolve = "default"]
            ELSE configs[i][n]]]

\* a type name no schema-like object declares
Ghost == "Ghost"

AssembleInit ==
    /\ \E subschemas \in SeqsUpTo(Shapes, MaxSchemas),
          typeDefs \in Shapes \cup {NoTypes},
          types \in Shapes \cup {NoTypes},
          schemas \in SeqsUpTo(Shapes, MaxSchemas - 1),
          fn \in OnTypeConflicts \cup {"none"},
          merge \in {{}, {"T"}, {Ghost}} :
          /\ msArgs = [subschemas |-> subschemas, typeDefs |-> typeDefs, types |-> types,
                       schemas |-> schemas, onTypeConflict |-> fn, merge |-> merge]
          /\ \E resolve \in {"absent", "given"} :
                msConfigs = MergeConfigs(subschemas, merge, resolve)
    /\ msTypeMap = <<>>
    /\ msOutcome = "call"

\* mergeSchemas with the merge configurations of the subschemas
MergeSchemas ==
    /\ msOutcome = "call"
    /\ msTypeMap' = TypeMapOf(msArgs, mergedTypes(msArgs))
    /\ msConfigs' = createMergeInfoConfigs(msArgs, msConfigs)
    /\ msOutcome' = "schema"
    /\ UNCHANGED msArgs
    /\ UNCHANGED notAssemble

\* mergeSchemas with the names to merge given as mergeTypes
MergeSchemasMergeTypes ==
    /\ msOutcome = "call"
    /\ IF msArgs.merge \subseteq CandidateNames(msArgs)
       THEN /\ msTypeMap' = TypeMapOf(msArgs, msArgs.merge)
            /\ msOutcome' = "schema"
       ELSE /\ msTypeMap' = <<>>
            /\ msOutcome' = "thrown"
    /\ UNCHANGED <<msArgs, msConfigs>>
    /\ UNCHANGED notAssemble

AssembleNext == MergeSchemas \/ MergeSchemasMergeTypes

\* the schema-like objects that declare a type, and their place in the
\* registration order: subschemas, then typeDefs, then types, then schemas
RegistrationRank(tag) ==
    CASE tag.arg = "subschemas" -> tag.n
      [] tag.arg = "typeDefs" -> 100
      [] tag.arg = "types" -> 200
      [] OTHER -> 300 + tag.n

ShapeAt(args, tag) ==
    CASE tag.arg = "subschemas" -> args.subschemas[tag.n]
      [] tag.arg = "typeDefs" -> args.typeDefs
      [] tag.arg = "types" -> args.types
      [] OTHER -> args.schemas[tag.n]

Declaring(args, name) ==
    {tag \in {Tag("subschemas", i) : i \in DOMAIN args.subschemas}
             \cup {Tag("typeDefs", 1), Tag("types", 1)}
             \cup {Tag("schemas", i) : i \in DOMAIN args.schemas} :
        ShapeAt(args, tag)[name] # {}}

FirstRegistered(tags) == CHOOSE t \in tags : \A u \in tags : RegistrationRank(t) <= RegistrationRank(u)

LastRegistered(tags) == CHOOSE t \in tags : \A u \in tags : RegistrationRank(t) >= RegistrationRank(u)

\* the left fold of the tie-break function over the declared types, taken
\* from the last one backwards
RECURSIVE FoldLeft(_, _, _, _)
FoldLeft(fn, args, name, tags) ==
    LET right == LastRegistered(tags)
        type == NamedType(name, right, ShapeAt(args, right)[name])
    IN  IF Cardinality(tags) = 1 THEN type
        ELSE onTypeConflict(fn, FoldLeft(fn, args, name, tags \ {right}), type)

Unmerged(name) ==
    /\ msOutcome = "schema"
    /\ name \in DOMAIN msTypeMap
    /\ ~IsRootName(name)
    /\ name \notin msArgs.merge

\* C15: a type name that is neither a root type nor merged gets one
\* candidate's type: the left fold of onTypeConflict over its candidates in
\* registration order when the function is given (always-left keeps the
\* first registered, always-right the last), the last registered otherwise.
C15_CanonicalCandidate ==
    \A name \in SchemaTypeNames :
        Unmerged(name) =>
            LET tags == Declaring(msArgs, name)
                fn == msArgs.onTypeConflict
                type == msTypeMap[name]
            IN  /\ fn = "none" => type.owner = LastRegistered(tags)
                /\ fn = "left" => type.owner = FirstRegistered(tags)
                /\ fn = "right" => type.owner = LastRegistered(tags)
                /\ fn # "none" => type = FoldLeft(fn, msArgs, name, tags)
                /\ fn # "fresh" =>
                      /\ type.owner \in tags
                      /\ type = NamedType(name, type.owner, ShapeAt(msArgs, type.owner)[name])

C15_Witness ==
    /\ Unmerged("T")
    /\ msArgs.onTypeConflict = "left"
    /\ Declaring(msArgs, "T") = {Tag("subschemas", 2), Tag("typeDefs", 1), Tag("schemas", 1)}
    /\ msTypeMap["T"].owner = Tag("subschemas", 2)

MergedName(name) ==
    /\ msOutcome = "schema"
    /\ name \in DOMAIN msTypeMap
    /\ \/ IsRootName(name)
       \/ /\ name \in msArgs.merge
          /\ \E i \in DOMAIN msArgs.subschemas : msArgs.subschemas[i][name] # {}

C17_AbsentMergedTypeThrows ==
    (msOutcome # "call" /\ Ghost \in msArgs.merge /\ msArgs.subschemas # <<>>) =>
        msOutcome = "thrown"

\* C29: subschema configurations are immutable: mergeSchemas, which collects
\* the candidates and computes the merge info, leaves every subschema
\* configuration passed to it as it was, each entry of its merge mapping
\* included.
C29_SubschemaConfigsUnchanged == [][msConfigs' = msConfigs]_vars

(***************************************************************************)
(* filterSchema: visitSchema replaces the root types and the object types  *)
(* by copies without the rejected fields, a type rejected by typeFilter by *)
(* null, and heals the schema; a query is then validated against it.       *)
(***************************************************************************)
AccountId == 2

PersonId == 3

ScalarId == 4

FilterHeap ==
    <<Obj("Query", "object",
          <<Field("account", Named(AccountId), <<>>), Field("count", Named(ScalarId), <<>>)>>,
          <<>>, <<>>),
      Obj("Account", "object",
          <<Field("secret", Named(ScalarId), <<>>), Field("name", Named(ScalarId), <<>>),
            Field("owner", Named(PersonId), <<>>)>>, <<>>, <<>>),
      Obj("Person", "object", <<Field("name", Named(ScalarId), <<>>)>>, <<>>, <<>>),
      Obj("ID", "scalar", <<>>, <<>>, <<>>)>>

FilterMap == [i \in 1..Len(FilterHeap) |-> [k |-> FilterHeap[i].name, v |-> i]]

FieldNamesOf(hp, o) == {hp[o].fields[i].name : i \in 1..Len(hp[o].fields)}

\* the schema's fields as <<type name, field name>> pairs
RootFields == {<<"Query", f>> : f \in FieldNamesOf(FilterHeap, 1)}

ObjectFields ==
    {<<FilterHeap[o].name, f>> : o \in {AccountId, PersonId}, f \in {"secret", "name", "owner"}}
        \cap UNION {{<<FilterHeap[o].name, f>> : f \in FieldNamesOf(FilterHeap, o)} :
                        o \in {AccountId, PersonId}}

\* filterRootFields / filterObjectFields: a new type without the rejected fields
filterObjectFields(hp, o, fieldFilter) ==
    [hp[o] EXCEPT !.fields = SelectSeq(@, LAMBDA f : <<hp[o].name, f.name>> \in fieldFilter)]

filterRootFields(hp, o, rootFieldFilter) ==
    [hp[o] EXCEPT !.fields = SelectSeq(@, LAMBDA f : <<hp[o].name, f.name>> \in rootFieldFilter)]

\* the visitor of filterSchema on the type held under key i of the map
VisitFiltered(hp, tm, i, filters) ==
    LET o == tm[i].v
    IN  CASE hp[o].name = "Query" ->
                [hp |-> Append(hp, filterRootFields(hp, o, filters.root)),
                 tm |-> [tm EXCEPT ![i].v = Len(hp) + 1]]
          [] hp[o].kind = "object" /\ hp[o].name \in filters.types ->
                [hp |-> Append(hp, filterObjectFields(hp, o, filters.fields)),
                 tm |-> [tm EXCEPT ![i].v = Len(hp) + 1]]
          [] hp[o].name \notin filters.types -> [hp |-> hp, tm |-> [tm EXCEPT ![i].v = NULL]]
          [] OTHER -> [hp |-> hp, tm |-> tm]

RECURSIVE VisitAll(_, _, _, _)
VisitAll(hp, tm, i, filters) ==
    IF i > Len(tm) THEN [hp |-> hp, tm |-> tm]
    ELSE Bind(VisitFiltered(hp, tm, i, filters), LAMBDA s :
              VisitAll(s.hp, s.tm, i + 1, filters))

\* filterSchema: the visit, then healSchema
filterSchema(hp, tm, filters) ==
    Bind(VisitAll(hp, tm, 1, filters), LAMBDA s : HealTypes(s.tm, s.hp, <<>>, FALSE))

\* validation of a query given as a path of field names: every field must be
\* a field of the type the path has reached
Valid == [kind |-> "valid", type |-> "", field |-> ""]

UnknownField(type, field) == [kind |-> "unknown field", type |-> type, field |-> field]

FieldIn(hp, o, name) == CHOOSE i \in 1..Len(hp[o].fields) : hp[o].fields[i].name = name

RECURSIVE ValidatePath(_, _, _)
ValidatePath(hp, o, path) ==
    IF path = <<>> THEN Valid
    ELSE IF Head(path) \notin FieldNamesOf(hp, o)
         THEN UnknownField(hp[o].name, Head(path))
         ELSE ValidatePath(hp, hp[o].fields[FieldIn(hp, o, Head(path))].type.t, Tail(path))

validate(hp, tm, path) ==
    IF Get(tm, "Query") \in {UNDEF, NULL}
    THEN [kind |-> "no query type", type |-> "Query", field |-> ""]
    ELSE ValidatePath(hp, Get(tm, "Query"), path)

Queries ==
    {<<"count">>, <<"account", "secret">>, <<"account", "name">>,
     <<"account", "owner", "name">>}

FilterInit ==
    /\ \E root \in SUBSET RootFields, types \in SUBSET {"Account", "Person"},
          fields \in SUBSET ObjectFields :
          fsFilters = [root |-> root, types |-> types \cup {"ID"}, fields |-> fields]
    /\ fsTypeMap = FilterMap
    /\ fsHeap = FilterHeap
    /\ fsQuery = <<>>
    /\ fsVerdict = Valid
    /\ fspc = "call"

FilterSchema ==
    /\ fspc = "call"
    /\ \E r \in {filterSchema(fsHeap, fsTypeMap, fsFilters)} :
          /\ fsHeap' = r.hp
          /\ fsTypeMap' = r.tm
          /\ fspc' = IF r.threw \/ r.diverged THEN "thrown" ELSE "filtered"
    /\ UNCHANGED <<fsFilters, fsQuery, fsVerdict>>
    /\ UNCHANGED notFilter

Validate ==
    /\ fspc = "filtered"
    /\ \E q \in Queries :
          /\ fsQuery' = q
          /\ fsVerdict' = validate(fsHeap, fsTypeMap, q)
    /\ fspc' = "validated"
    /\ UNCHANGED <<fsFilters, fsTypeMap, fsHeap>>
    /\ UNCHANGED notFilter

FilterNext == FilterSchema \/ Validate

\* the types of the filtered schema: those of the map and those its fields
\* still refer to
TypeOfName(name) == Get(fsTypeMap, name)

PresentField(name, f) ==
    /\ TypeOfName(name) \notin {UNDEF, NULL}
    /\ f \in FieldNamesOf(fsHeap, TypeOfName(name))

InMap == {fsTypeMap[i].v : i \in 1..Len(fsTypeMap)} \ {NULL}

ReferredTo ==
    UNION {{fsHeap[o].fields[i].type.t : i \in 1..Len(fsHeap[o].fields)} : o \in InMap}

\* the type a path of field names of the original schema ends in
RECURSIVE OwnerOf(_, _)
OwnerOf(o, path) ==
    IF Len(path) = 1 THEN o
    ELSE OwnerOf(FilterHeap[o].fields[FieldIn(FilterHeap, o, Head(path))].type.t, Tail(path))

Accepted(o, f) ==
    IF o = 1 THEN <<"Query", f>> \in fsFilters.root
    ELSE <<FilterHeap[o].name, f>> \in fsFilters.fields

\* the first field of the query that its filter rejects, 0 when there is none
FirstFilteredOut(q) ==
    IF \E i \in 1..Len(q) : ~Accepted(OwnerOf(1, SubSeq(q, 1, i)), q[i])
    THEN CHOOSE i \in 1..Len(q) :
            /\ ~Accepted(OwnerOf(1, SubSeq(q, 1, i)), q[i])
            /\ \A j \in 1..(i - 1) : Accepted(OwnerOf(1, SubSeq(q, 1, j)), q[j])
    ELSE 0

C18_RootFieldsIff ==
    fspc = "filtered" =>
        \A p \in RootFields : PresentField(p[1], p[2]) <=> p \in fsFilters.root

C18_ObjectFieldsIff ==
    fspc = "filtered" =>
        \A p \in ObjectFields :
            p[1] \in fsFilters.types => (PresentField(p[1], p[2]) <=> p \in fsFilters.fields)

C18_EmptyTypesPruned ==
    fspc = "filtered" =>
        \A o \in InMap \cup ReferredTo : fsHeap[o].kind = "object" => fsHeap[o].fields # <<>>

C18_FilteredOutRejected ==
    (fspc = "validated" /\ FirstFilteredOut(fsQuery) # 0) =>
        LET i == FirstFilteredOut(fsQuery)
        IN  fsVerdict = UnknownField(FilterHeap[OwnerOf(1, SubSeq(fsQuery, 1, i))].name, fsQuery[i])

\* C18: in a filtered schema a field is present exactly when its filter
\* accepts it (rootFieldFilter for the root type, fieldFilter for the object
\* types typeFilter accepts), no type without fields is left, and a query
\* that selects a filtered-out field fails validation with that field
\* reported unknown on its type.
C18_FilteredFieldsAbsent ==
    /\ C18_RootFieldsIff
    /\ C18_ObjectFieldsIff
    /\ C18_EmptyTypesPruned
    /\ C18_FilteredOutRejected

(***************************************************************************)
(* WrapFields: fields of the outer type are moved to the innermost of a    *)
(* chain of new wrapping types; a selection through the wrapping fields is *)
(* hoisted to the outer type in the request and the flat result is         *)
(* de-hoisted by the resolver of the outermost wrapping field.             *)
(***************************************************************************)
MaxWraps == 2

WrapHeap ==
    <<Obj("Query", "object", <<Field("widget", Named(2), <<>>)>>, <<>>, <<>>),
      Obj("Widget", "object",
          <<Field("a", Named(3), <<>>), Field("b", Named(3), <<>>), Field("c", Named(3), <<>>)>>,
          <<>>, <<>>),
      Obj("ID", "scalar", <<>>, <<>>, <<>>)>>

WrapMap == [i \in 1..Len(WrapHeap) |-> [k |-> WrapHeap[i].name, v |-> i]]

outerTypeName == "Widget"

AllWrappingFieldNames == <<"w1", "w2", "w3">>

AllWrappingTypeNames == <<"W1", "W2", "W3">>

wrappingFieldNames(numWraps) == SubSeq(AllWrappingFieldNames, 1, numWraps)

wrappingTypeNames(numWraps) == SubSeq(AllWrappingTypeNames, 1, numWraps)

\* !this.fieldNames ? () => true : fieldName => this.fieldNames.includes(fieldName)
Includes(fieldNames, fieldName) == ~fieldNames.given \/ fieldName \in fieldNames.names

\* mutant of remainingWrappingFieldNames: the outermost name is not shifted off
remainingWrappingFieldNamesAll(numWraps) == wrappingFieldNames(numWraps)

\* constructor: the wrapping field names below the outermost one
remainingWrappingFieldNames(numWraps) == Tail(wrappingFieldNames(numWraps))

outerMostWrappingFieldName(numWraps) == Head(wrappingFieldNames(numWraps))

\* removeFields: the type is replaced by a copy without the fields the test
\* accepts, which are returned
removeFields(s, typeName, fieldNames) ==
    LET o == Get(s.tm, typeName)
    IN  [hp |-> Append(s.hp, [s.hp[o] EXCEPT !.fields =
                                 SelectSeq(@, LAMBDA f : ~Includes(fieldNames, f.name))]),
         tm |-> Set(s.tm, typeName, Len(s.hp) + 1),
         removed |-> SelectSeq(s.hp[o].fields, LAMBDA f : Includes(fieldNames, f.name))]

\* appendFields: the type is replaced by a copy with the fields added, or
\* created with them when the map has no type of that name
appendFields(s, typeName, fields) ==
    LET o == Get(s.tm, typeName)
        names == {fields[i].name : i \in 1..Len(fields)}
    IN  [hp |-> Append(s.hp,
                   IF o \in {UNDEF, NULL}
                   THEN Obj(typeName, "object", fields, <<>>, <<>>)
                   ELSE [s.hp[o] EXCEPT !.fields =
                            SelectSeq(@, LAMBDA f : f.name \notin names) \o fields]),
         tm |-> Set(s.tm, typeName, Len(s.hp) + 1)]

\* transformSchema: for (wrapIndex--; wrapIndex > -1; wrapIndex--)
RECURSIVE AppendWrappers(_, _, _)
AppendWrappers(s, numWraps, wrapIndex) ==
    IF wrapIndex < 1 THEN s
    ELSE Bind(appendFields(s, wrappingTypeNames(numWraps)[wrapIndex],
                  <<Field(wrappingFieldNames(numWraps)[wrapIndex + 1],
                          Named(Get(s.tm, wrappingTypeNames(numWraps)[wrapIndex + 1])), <<>>)>>),
              LAMBDA t : AppendWrappers(t, numWraps, wrapIndex - 1))

transformSchema(hp, tm, numWraps, fieldNames) ==
    Bind(removeFields([hp |-> hp, tm |-> tm], outerTypeName, fieldNames), LAMBDA r :
    Bind(appendFields(r, wrappingTypeNames(numWraps)[numWraps], r.removed), LAMBDA inner :
    Bind(AppendWrappers(inner, numWraps, numWraps - 1), LAMBDA chain :
    Bind(appendFields(chain, outerTypeName,
             <<Field(wrappingFieldNames(numWraps)[1],
                     Named(Get(chain.tm, wrappingTypeNames(numWraps)[1])), <<>>)>>),
         LAMBDA s : HealTypes(s.tm, s.hp, <<>>, FALSE)))))

\* a hoisted field node: its response key is the path of response keys it
\* was found under
Hoisted(keys, name) == [alias |-> keys, name |-> name]

\* hoistFieldNodes: the wrapped fields found under the field node along the
\* path of wrapping field names
RECURSIVE HoistEach(_, _, _, _)
RECURSIVE hoistFieldNodes(_, _, _, _)
hoistFieldNodes(fieldNode, path, fieldNames, keys) ==
    HoistEach(collectFields(fieldNode.kids), path, fieldNames, Append(keys, fieldNode.alias))

HoistEach(nodes, path, fieldNames, keys) ==
    IF nodes = <<>> THEN <<>>
    ELSE LET node == Head(nodes)
             rest == HoistEach(Tail(nodes), path, fieldNames, keys)
         IN  IF path = <<>>
             THEN IF Includes(fieldNames, node.name)
                  THEN <<Hoisted(Append(keys, node.alias), node.name)>> \o rest
                  ELSE rest
             ELSE IF node.name = Head(path)
                  THEN hoistFieldNodes(node, Tail(path), fieldNames, keys) \o rest
                  ELSE rest

\* MapFields.transformRequest: on the outer type, every field node of the
\* outermost wrapping field is replaced by what the constructor's function
\* returns for it; the other field nodes are kept
RECURSIVE transformRequest(_, _, _)
transformRequest(selections, numWraps, fieldNames) ==
    IF selections = <<>> THEN <<>>
    ELSE (IF Head(selections).name = outerMostWrappingFieldName(numWraps)
          THEN hoistFieldNodes(Head(selections), remainingWrappingFieldNames(numWraps),
                               fieldNames, <<>>)
          ELSE <<Hoisted(<<Head(selections).alias>>, Head(selections).name)>>)
         \o transformRequest(Tail(selections), numWraps, fieldNames)

\* the original schema resolves field f of the widget to a value of its own
ValueOf(f) == [of |-> f]

NoValue == [of |-> "null"]

\* execution of the request against the original schema: a value per response key
Execute(request) ==
    [keys \in {request[i].alias : i \in 1..Len(request)} |->
        ValueOf(request[CHOOSE i \in 1..Len(request) : request[i].alias = keys].name)]

\* createMergedResolver({ dehoist: true }) on the outermost wrapping field and
\* defaultMergedResolver below it: the value at a path of response keys
Dehoisted(raw, keys) == IF keys \in DOMAIN raw THEN raw[keys] ELSE NoValue

\* the client's selections on the outer type: aliased selections of the
\* outermost wrapping field, each nesting the remaining wrapping fields
\* around the leaf selections, given directly or through a fragment
RECURSIVE Nest(_, _, _)
Nest(numWraps, level, leaves) ==
    IF level > numWraps THEN leaves
    ELSE <<FieldNode(AllWrappingFieldNames[level], AllWrappingFieldNames[level],
                     Nest(numWraps, level + 1, leaves))>>

WrapSelection(numWraps, alias, leaves) ==
    FieldNode(alias, AllWrappingFieldNames[1], Nest(numWraps, 2, leaves))

LeafNodes == {FieldNode(l, f, <<>>) : l \in {"one", "two"}, f \in {"a", "b"}}

LeafSelections ==
    {<<n>> : n \in LeafNodes}
    \cup {<<FragmentSpread(<<n>>)>> : n \in LeafNodes}
    \cup {<<n, FragmentSpread(<<m>>)>> : n \in {x \in LeafNodes : x.alias = "one"},
                                         m \in {x \in LeafNodes : x.alias = "two"}}

ClientQueries(numWraps) ==
    {<<WrapSelection(numWraps, "t1", l)>> : l \in LeafSelections}
    \cup {<<WrapSelection(numWraps, "t1", l), WrapSelection(numWraps, "t2", m)>> :
            l \in LeafSelections, m \in {<<n>> : n \in LeafNodes}}
    \cup {<<FieldNode("c", "c", <<>>), WrapSelection(numWraps, "t1", <<n>>)>> : n \in LeafNodes}

\* the leaves of the client's query as <<path of response keys, path of field names>>
RECURSIVE LeafPaths(_, _, _)
LeafPaths(selections, keys, names) ==
    IF selections = <<>> THEN {}
    ELSE LET node == Head(collectFields(selections))
             others == LeafPaths(Tail(collectFields(selections)), keys, names)
         IN  IF node.kids = <<>>
             THEN {<<Append(keys, node.alias), Append(names, node.name)>>} \cup others
             ELSE LeafPaths(node.kids, Append(keys, node.alias), Append(names, node.name))
                  \cup others

\* the fieldNames argument: not given, or the names of the fields to wrap
FieldNameArgs ==
    {[given |-> FALSE, names |-> {}]} \cup {[given |-> TRUE, names |-> n] : n \in {{"a", "b"}, {"a"}}}

WrapInit ==
    /\ \E numWraps \in 1..MaxWraps, fieldNames \in FieldNameArgs :
          /\ wfArgs = [numWraps |-> numWraps, fieldNames |-> fieldNames]
          /\ wfQuery \in ClientQueries(numWraps)
    /\ wfHeap = WrapHeap
    /\ wfTypeMap = WrapMap
    /\ wfRequest = <<>>
    /\ wfRaw = <<>>
    /\ wfData = <<>>
    /\ wfpc = "call"

\* transformSchema
WrapSchema ==
    /\ wfpc = "call"
    /\ \E r \in {transformSchema(wfHeap, wfTypeMap, wfArgs.numWraps, wfArgs.fieldNames)} :
          /\ wfHeap' = r.hp
          /\ wfTypeMap' = r.tm
          /\ wfpc' = IF r.threw \/ r.diverged THEN "thrown" ELSE "wrapped"
    /\ UNCHANGED <<wfArgs, wfQuery, wfRequest, wfRaw, wfData>>
    /\ UNCHANGED notWrap

\* the client's query is validated against the wrapped schema and, when
\* valid, delegated: transformRequest
WrapRequest ==
    /\ wfpc = "wrapped"
    /\ IF \A p \in LeafPaths(wfQuery, <<>>, <<>>) :
             ValidatePath(wfHeap, Get(wfTypeMap, outerTypeName), p[2]) = Valid
       THEN /\ wfRequest' = transformRequest(wfQuery, wfArgs.numWraps, wfArgs.fieldNames)
            /\ wfpc' = "requested"
       ELSE /\ wfRequest' = <<>>
            /\ wfpc' = "rejected"
    /\ UNCHANGED <<wfArgs, wfHeap, wfTypeMap, wfQuery, wfRaw, wfData>>
    /\ UNCHANGED notWrap

\* the original schema executes the request
WrapExecute ==
    /\ wfpc = "requested"
    /\ wfRaw' = Execute(wfRequest)
    /\ wfpc' = "executed"
    /\ UNCHANGED <<wfArgs, wfHeap, wfTypeMap, wfQuery, wfRequest, wfData>>
    /\ UNCHANGED notWrap

\* the resolvers of the wrapped schema resolve the client's selections
WrapResolve ==
    /\ wfpc = "executed"
    /\ wfData' = [keys \in {p[1] : p \in LeafPaths(wfQuery, <<>>, <<>>)} |-> Dehoisted(wfRaw, keys)]
    /\ wfpc' = "done"
    /\ UNCHANGED <<wfArgs, wfHeap, wfTypeMap, wfQuery, wfRequest, wfRaw>>
    /\ UNCHANGED notWrap

WrapNext == WrapSchema \/ WrapRequest \/ WrapExecute \/ WrapResolve

Last(q) == q[Len(q)]

Unwrapped(f) == Execute(<<Hoisted(<<f>>, f)>>)[<<f>>]

\* a leaf of the client's query the wrapped schema has: a wrapped field under
\* the wrapping path, or a field left on the outer type selected there
OnItsType(p) == (Len(p[1]) > 1) = Includes(wfArgs.fieldNames, Last(p[2]))

\* C19: a wrapped field selected through the wrapping path, directly or
\* through a fragment on the wrapping type, resolves to the value the same
\* field has when selected on the outer type of the original schema, for
\* every number of wrapping levels.
C19_WrappedEqualsUnwrapped ==
    /\ wfpc # "thrown"
    /\ (\A p \in LeafPaths(wfQuery, <<>>, <<>>) : OnItsType(p)) => wfpc # "rejected"
    /\ wfpc = "done" =>
          \A p \in LeafPaths(wfQuery, <<>>, <<>>) :
              Len(p[1]) > 1 => wfData[p[1]] = Unwrapped(Last(p[2]))

C19_Witness ==
    /\ wfpc = "done"
    /\ wfArgs.numWraps = MaxWraps
    /\ \E k1, k2 \in DOMAIN wfData :
          /\ Len(k1) = MaxWraps + 1 /\ k1[1] = "t1" /\ Last(k1) = "one"
          /\ Len(k2) = MaxWraps + 1 /\ k2[1] = "t2" /\ Last(k2) = "one"
          /\ wfData[k1] = ValueOf("a")
          /\ wfData[k2] = ValueOf("b")

(***************************************************************************)
(* Remote subscriptions: every subscribe() call runs the subscription      *)
(* resolver, which executes the operation on the link, turns the           *)
(* observable into an async iterator and maps its results; publications on *)
(* the trigger are fanned out to every listener.                           *)
(***************************************************************************)
MaxSubscribers == 2

MaxEvents == 2

Subscribers == 1..MaxSubscribers

\* the execution result the remote schema sends for a published event
Notification(e) == [data |-> [notifications |-> e]]

\* result => ({ [info.fieldName]: checkResultAndHandleErrors(result, info) })
MapResult(result) == [notifications |-> result.data.notifications]

MapResults(results) == [i \in 1..Len(results) |-> MapResult(results[i])]

\* mutant of IteratorOf: one observable and one iterator shared by every call
IteratorShared(s) == 1

\* createSubscriptionResolver: every call of the resolver executes the
\* operation and makes an iterator of its own
IteratorOf(s) == s

\* pushValue of the iterator: the oldest pending next() is resolved with
\* the result, or the result is queued
pushValue(st, i, result) ==
    IF st.pull[i] # <<>>
    THEN [st EXCEPT !.recv[Head(st.pull[i])] = Append(@, MapResult(result)),
                    !.pull[i] = Tail(@)]
    ELSE [st EXCEPT !.push[i] = Append(@, result)]

\* publish: every listener of the trigger is called with the event
RECURSIVE FanOut(_, _, _)
FanOut(st, listeners, result) ==
    IF listeners = {} THEN st
    ELSE LET i == CHOOSE x \in listeners : \A y \in listeners : x <= y
         IN  FanOut(pushValue(st, i, result), listeners \ {i}, result)

SubInit ==
    /\ sbIter = [s \in Subscribers |-> 0]
    /\ sbSince = [s \in Subscribers |-> 0]
    /\ sbListeners = {}
    /\ sbPublished = <<>>
    /\ sbPushQueue = [i \in Subscribers |-> <<>>]
    /\ sbPullQueue = [i \in Subscribers |-> <<>>]
    /\ sbReceived = [s \in Subscribers |-> <<>>]

\* subscribe(schema, subscription): the subscription resolver runs
Subscribe(s) ==
    /\ sbIter[s] = 0
    /\ sbIter' = [sbIter EXCEPT ![s] = IteratorOf(s)]
    /\ sbSince' = [sbSince EXCEPT ![s] = Len(sbPublished)]
    /\ sbListeners' = sbListeners \cup {IteratorOf(s)}
    /\ UNCHANGED <<sbPublished, sbPushQueue, sbPullQueue, sbReceived>>
    /\ UNCHANGED notSub

\* subscriptionPubSub.publish(subscriptionPubSubTrigger, mockNotification)
Publish ==
    /\ Len(sbPublished) < MaxEvents
    /\ LET e == Len(sbPublished) + 1
           st == FanOut([push |-> sbPushQueue, pull |-> sbPullQueue, recv |-> sbReceived],
                        sbListeners, Notification(e))
       IN  /\ sbPublished' = Append(sbPublished, e)
           /\ sbPushQueue' = st.push
           /\ sbPullQueue' = st.pull
           /\ sbReceived' = st.recv
    /\ UNCHANGED <<sbIter, sbSince, sbListeners>>
    /\ UNCHANGED notSub

\* forAwaitEach: the subscriber calls next() on its iterator
PullValue(s) ==
    /\ sbIter[s] # 0
    /\ \A i \in Subscribers : \A k \in 1..Len(sbPullQueue[i]) : sbPullQueue[i][k] # s
    /\ LET i == sbIter[s]
       IN  IF sbPushQueue[i] # <<>>
           THEN /\ sbReceived' = [sbReceived EXCEPT ![s] = Append(@, MapResult(Head(sbPushQueue[i])))]
                /\ sbPushQueue' = [sbPushQueue EXCEPT ![i] = Tail(@)]
                /\ UNCHANGED sbPullQueue
           ELSE /\ sbPullQueue' = [sbPullQueue EXCEPT ![i] = Append(@, s)]
                /\ UNCHANGED <<sbPushQueue, sbReceived>>
    /\ UNCHANGED <<sbIter, sbSince, sbListeners, sbPublished>>
    /\ UNCHANGED notSub

SubNext ==
    \/ \E s \in Subscribers : Subscribe(s)
    \/ Publish
    \/ \E s \in Subscribers : PullValue(s)

\* the results a subscriber is owed: one per event published since it subscribed
Owed(s) ==
    [k \in 1..(Len(sbPublished) - sbSince[s]) |-> MapResult(Notification(sbPublished[sbSince[s] + k]))]

\* C20: every event published while a subscriber is subscribed reaches that
\* subscriber's iterator exactly once and in order, whatever the other
\* subscribers do: what it has received followed by what its iterator still
\* holds is exactly the events published since it subscribed, so k
\* publications give k results once the iterator is drained.
C20_EachEventExactlyOnce ==
    \A s \in Subscribers :
        sbIter[s] # 0 =>
            /\ sbReceived[s] \o MapResults(sbPushQueue[sbIter[s]]) = Owed(s)
            /\ sbPushQueue[sbIter[s]] = <<>> => Len(sbReceived[s]) = Len(sbPublished) - sbSince[s]

C20_Witness ==
    /\ Len(sbPublished) = MaxEvents
    /\ \A s \in Subscribers :
          /\ sbIter[s] # 0
          /\ sbSince[s] = 0
          /\ Len(sbReceived[s]) = MaxEvents
          /\ sbReceived[s][1] # sbReceived[s][MaxEvents]

(***************************************************************************)
(* addResolveFunctionsToSchema and extendResolversFromInterfaces: the      *)
(* resolvers of the interfaces an object type implements are merged under  *)
(* the type's own resolvers when inheritResolversFromInterfaces is set.    *)
(***************************************************************************)
\* the schema of the resolver-inheritance tests, with a second interface
RsKinds == <<[k |-> "Query", v |-> "object"], [k |-> "Node", v |-> "interface"],
             [k |-> "Entity", v |-> "interface"], [k |-> "User", v |-> "object"],
             [k |-> "ID", v |-> "scalar"]>>

RsFields(typeName) ==
    CASE typeName = "Query" -> {"user"}
      [] typeName = "Node" -> {"id"}
      [] typeName = "Entity" -> {"id", "label"}
      [] typeName = "User" -> {"id", "label", "name"}
      [] OTHER -> {}

\* type.getInterfaces()
getInterfaces(args, typeName) == IF typeName = "User" THEN args.interfaces ELSE <<>>

\* fieldName.startsWith('__') and fieldName.substring(2)
IsMetaKey(fieldName) == fieldName \in {"__resolveType", "__isTypeOf"}

Substring2(fieldName) ==
    CASE fieldName = "__resolveType" -> "resolveType"
      [] fieldName = "__isTypeOf" -> "isTypeOf"
      [] OTHER -> fieldName

\* Object.assign(target, source): the source's entries are set on the target
\* in the source's key order; an undefined source is skipped
RECURSIVE AssignEntries(_, _, _)
AssignEntries(target, source, i) ==
    IF i > Len(source) THEN target
    ELSE AssignEntries(Set(target, source[i].k, source[i].v), source, i + 1)

RECURSIVE ObjectAssign(_, _, _, _)
ObjectAssign(objects, target, sources, i) ==
    IF i > Len(sources) THEN objects
    ELSE IF sources[i] = UNDEF
         THEN ObjectAssign(objects, target, sources, i + 1)
         ELSE ObjectAssign([objects EXCEPT ![target] =
                               AssignEntries(@, objects[sources[i]], 1)],
                           target, sources, i + 1)

\* Object.keys({ ...schema.getTypeMap(), ...resolvers })
RECURSIVE SpreadKeys(_, _, _)
SpreadKeys(ks, m, i) ==
    IF i > Len(m) THEN ks
    ELSE SpreadKeys(IF \E j \in 1..Len(ks) : ks[j] = m[i].k THEN ks ELSE Append(ks, m[i].k),
                    m, i + 1)

\* mutant of ExtendType: Object.assign(...interfaceResolvers, typeResolvers),
\* the first interface's resolver object is the target
ExtendTypeInPlace(args, st, resolvers, typeName) ==
    LET typeResolvers == Get(resolvers, typeName)
        interfaceResolvers ==
            [i \in 1..Len(getInterfaces(args, typeName)) |->
                Get(resolvers, getInterfaces(args, typeName)[i])]
        sources == Append(interfaceResolvers, typeResolvers)
    IN  IF Get(RsKinds, typeName) = "object" /\ sources[1] # UNDEF
        THEN [objects |-> ObjectAssign(st.objects, sources[1], Tail(sources), 1),
              extended |-> Set(st.extended, typeName, sources[1])]
        ELSE IF typeResolvers # UNDEF
             THEN [st EXCEPT !.extended = Set(@, typeName, typeResolvers)]
             ELSE st

\* the body of typeNames.forEach in extendResolversFromInterfaces
ExtendType(args, st, resolvers, typeName) ==
    LET typeResolvers == Get(resolvers, typeName)
        interfaceResolvers ==
            [i \in 1..Len(getInterfaces(args, typeName)) |->
                Get(resolvers, getInterfaces(args, typeName)[i])]
        fresh == Len(st.objects) + 1
    IN  IF \/ Get(RsKinds, typeName) = "object"
           \/ (args.graphqlVersion >= 15 /\ Get(RsKinds, typeName) = "interface")
        THEN [objects |-> ObjectAssign(Append(st.objects, <<>>), fresh,
                                       Append(interfaceResolvers, typeResolvers), 1),
              extended |-> Set(st.extended, typeName, fresh)]
        ELSE IF typeResolvers # UNDEF
             THEN [st EXCEPT !.extended = Set(@, typeName, typeResolvers)]
             ELSE st

RECURSIVE ExtendEach(_, _, _, _, _)
ExtendEach(args, st, resolvers, typeNames, i) ==
    IF i > Len(typeNames) THEN st
    ELSE Bind(ExtendType(args, st, resolvers, typeNames[i]), LAMBDA t :
              ExtendEach(args, t, resolvers, typeNames, i + 1))

extendResolversFromInterfaces(args, objects, resolvers) ==
    ExtendEach(args, [objects |-> objects, extended |-> <<>>], resolvers,
               SpreadKeys(SpreadKeys(<<>>, RsKinds, 1), resolvers, 1), 1)

\* the object-type branch of addResolveFunctionsToSchema for one type: a
\* key with the meta prefix is set on the type, any other key must be a
\* field of the type and becomes its resolve function
RECURSIVE SetResolvers(_, _, _, _)
SetResolvers(typeName, resolverValue, i, applied) ==
    IF i > Len(resolverValue) THEN [applied |-> applied, threw |-> FALSE]
    ELSE LET fieldName == resolverValue[i].k
         IN  IF IsMetaKey(fieldName)
             THEN SetResolvers(typeName, resolverValue, i + 1,
                               Set(applied, Substring2(fieldName), resolverValue[i].v))
             ELSE IF fieldName \notin RsFields(typeName)
                  THEN [applied |-> applied, threw |-> TRUE]
                  ELSE SetResolvers(typeName, resolverValue, i + 1,
                                    Set(applied, fieldName, resolverValue[i].v))

RECURSIVE AddEach(_, _, _, _)
AddEach(objects, resolvers, i, st) ==
    IF i > Len(resolvers) \/ st.threw THEN st
    ELSE Bind(SetResolvers(resolvers[i].k, objects[resolvers[i].v], 1, st.applied[resolvers[i].k]),
              LAMBDA r : AddEach(objects, resolvers, i + 1,
                                 [applied |-> [st.applied EXCEPT ![resolvers[i].k] = r.applied],
                                  threw |-> r.threw]))

NoneApplied == [t \in {RsKinds[i].k : i \in 1..Len(RsKinds)} |-> <<>>]

addResolveFunctionsToSchema(args, objects, inputResolvers) ==
    Bind(IF args.inheritResolversFromInterfaces = "true"
         THEN extendResolversFromInterfaces(args, objects, inputResolvers)
         ELSE [objects |-> objects, extended |-> inputResolvers], LAMBDA e :
    Bind(AddEach(e.objects, e.extended, 1, [applied |-> NoneApplied, threw |-> FALSE]),
         LAMBDA a : [objects |-> e.objects, applied |-> a.applied, threw |-> a.threw]))

\* a resolver is identified by the type and key it was written under
ResolverObject(typeName, ks) == [i \in 1..Len(ks) |-> [k |-> ks[i], v |-> <<typeName, ks[i]>>]]

ResolverKeys(typeName) ==
    CASE typeName = "Node" -> {<<>>, <<"__resolveType">>, <<"id">>, <<"__resolveType", "id">>}
      [] typeName = "Entity" -> {<<>>, <<"label">>, <<"id">>, <<"label", "id">>}
      [] typeName = "User" -> {<<>>, <<"name">>, <<"id">>, <<"name", "id">>}
      [] OTHER -> {<<"user">>}

\* the caller's map names any of the types, in the order Node, Entity, User, Query
RECURSIVE CallerMap(_, _, _)
CallerMap(given, i, st) ==
    IF i > Len(given) THEN st
    ELSE CallerMap(given, i + 1,
                   [objects |-> Append(st.objects, ResolverObject(given[i].k, given[i].v)),
                    resolvers |-> Append(st.resolvers, [k |-> given[i].k, v |-> Len(st.objects) + 1])])

Given(typeName) == {<<>>} \cup {<<[k |-> typeName, v |-> ks]>> : ks \in ResolverKeys(typeName)}

ResolverInit ==
    /\ \E n \in Given("Node"), e \in Given("Entity"), u \in Given("User") :
          LET c == CallerMap(n \o e \o u \o <<[k |-> "Query", v |-> <<"user">>]>>, 1,
                             [objects |-> <<>>, resolvers |-> <<>>])
          IN  /\ rsObjects = c.objects
              /\ rsResolvers = c.resolvers
              /\ rsGiven = c
    /\ rsArgs \in [inheritResolversFromInterfaces : {"true", "false", "absent"},
                   graphqlVersion : {14, 15},
                   interfaces : {<<"Node", "Entity">>, <<"Entity", "Node">>}]
    /\ rsApplied = NoneApplied
    /\ rspc = "call"

\* addResolveFunctionsToSchema({ schema, resolvers, inheritResolversFromInterfaces })
AddResolveFunctionsToSchema ==
    /\ rspc = "call"
    /\ \E r \in {addResolveFunctionsToSchema(rsArgs, rsObjects, rsResolvers)} :
          /\ rsObjects' = r.objects
          /\ rsApplied' = r.applied
          /\ rspc' = IF r.threw THEN "thrown" ELSE "done"
    /\ UNCHANGED <<rsArgs, rsResolvers, rsGiven>>
    /\ UNCHANGED notResolver

ResolverNext == AddResolveFunctionsToSchema

\* the resolver the caller gave for a key of a type, if any
GivenFor(typeName, key) ==
    IF HasKey(rsGiven.resolvers, typeName)
    THEN {e.v : e \in {x \in Range(rsGiven.objects[Get(rsGiven.resolvers, typeName)]) : x.k = key}}
    ELSE {}

\* the resolver an object type is to have for a key: its own, else that of
\* the last interface, in declaration order, that has one
RECURSIVE Inherited(_, _, _)
Inherited(ifaces, key, i) ==
    IF i < 1 THEN {}
    ELSE IF GivenFor(ifaces[i], key) # {} THEN GivenFor(ifaces[i], key)
         ELSE Inherited(ifaces, key, i - 1)

Expected(typeName, key) ==
    IF GivenFor(typeName, key) # {} THEN GivenFor(typeName, key)
    ELSE IF rsArgs.inheritResolversFromInterfaces = "true"
         THEN Inherited(getInterfaces(rsArgs, typeName), key, Len(getInterfaces(rsArgs, typeName)))
         ELSE {}

AppliedFor(typeName, key) ==
    {e.v : e \in {x \in Range(rsApplied[typeName]) : x.k = Substring2(key)}}

ResolverKeyNames == {"__resolveType", "id", "label", "name", "user"}

\* C22: with inheritResolversFromInterfaces true an object type gets, for
\* every key, its own resolver, else the resolver of the interfaces it
\* implements, a later interface overriding an earlier one; with the flag
\* false or absent it gets its own resolvers only; in both cases the
\* caller's resolver map and its resolver objects are as they were.
C22_InterfaceResolversInherited ==
    /\ rspc # "thrown"
    /\ rspc = "done" =>
          /\ \A typeName \in {"User", "Query"} : \A key \in ResolverKeyNames :
                AppliedFor(typeName, key) = Expected(typeName, key)
          /\ rsResolvers = rsGiven.resolvers
          /\ \A o \in 1..Len(rsGiven.objects) : rsObjects[o] = rsGiven.objects[o]

C22_Witness ==
    /\ rspc = "done"
    /\ rsArgs.inheritResolversFromInterfaces = "true"
    /\ rsArgs.interfaces = <<"Node", "Entity">>
    /\ AppliedFor("User", "id") = {<<"Entity", "id">>}
    /\ AppliedFor("User", "label") = {<<"Entity", "label">>}
    /\ AppliedFor("User", "name") = {<<"User", "name">>}
    /\ AppliedFor("User", "__resolveType") = {<<"Node", "__resolveType">>}
    /\ GivenFor("Node", "id") = {<<"Node", "id">>}

(***************************************************************************)
(* Specifications: one per component; the components do not share state,   *)
(* and each specification holds the other components idle.                 *)
(***************************************************************************)
HealIdle ==
    /\ heap = <<>>
    /\ typeMap = <<>>
    /\ directives = <<>>
    /\ nextId = 1
    /\ muts = MaxMuts
    /\ last = "init"
    /\ lastSkip = FALSE
    /\ deleted = {}

PipeIdle ==
    /\ tList = <<>>
    /\ pipe = NoTrace
    /\ comp = NoTrace
    /\ tpc = "done"

RenameIdle ==
    /\ renamer = "identity"
    /\ rnOptions = [renameBuiltins |-> FALSE, renameScalars |-> TRUE]
    /\ reverseMap = <<>>
    /\ newSchema = <<>>
    /\ rnRequest = NoIO
    /\ rnResult = [in |-> Null, out |-> Null]
    /\ rnpc = "idle"

NullIdle ==
    /\ hnErrors = <<>>
    /\ hnPath = <<>>
    /\ hnResult = NullValue
    /\ hnpc = "idle"

ResultIdle ==
    /\ crType = LeafType
    /\ crData = NullValue
    /\ crErrors = <<>>
    /\ crObjects = <<>>
    /\ crReturn = NullValue
    /\ crpc = "idle"

MergeIdle ==
    /\ mgTypes = <<>>
    /\ mgOrigin = "A"
    /\ mgSelection = {}
    /\ mgObject = <<>>
    /\ mgPending = <<>>
    /\ mgDone = <<>>
    /\ mgErrors = {}
    /\ mgInfo = <<>>
    /\ mgShape = ""
    /\ mgPassed = <<>>
    /\ mgpc = "idle"

AssembleIdle ==
    /\ msArgs = <<>>
    /\ msTypeMap = <<>>
    /\ msOutcome = "idle"
    /\ msConfigs = <<>>

FilterIdle ==
    /\ fsFilters = <<>>
    /\ fsTypeMap = <<>>
    /\ fsHeap = <<>>
    /\ fsQuery = <<>>
    /\ fsVerdict = <<>>
    /\ fspc = "idle"

WrapIdle ==
    /\ wfArgs = <<>>
    /\ wfHeap = <<>>
    /\ wfTypeMap = <<>>
    /\ wfQuery = <<>>
    /\ wfRequest = <<>>
    /\ wfRaw = <<>>
    /\ wfData = <<>>
    /\ wfpc = "idle"

SubIdle ==
    /\ sbIter = <<>>
    /\ sbSince = <<>>
    /\ sbListeners = {}
    /\ sbPublished = <<>>
    /\ sbPushQueue = <<>>
    /\ sbPullQueue = <<>>
    /\ sbReceived = <<>>

ResolverIdle ==
    /\ rsArgs = <<>>
    /\ rsObjects = <<>>
    /\ rsResolvers = <<>>
    /\ rsGiven = <<>>
    /\ rsApplied = <<>>
    /\ rspc = "idle"

\* the type healer
Init == HealInit /\ PipeIdle /\ RenameIdle /\ NullIdle /\ ResultIdle /\ MergeIdle /\ AssembleIdle /\ FilterIdle /\ WrapIdle /\ SubIdle /\ ResolverIdle

Next == HealNext

Spec == Init /\ [][Next]_vars

\* the transform pipeline
InitTransforms == PipeInit /\ HealIdle /\ RenameIdle /\ NullIdle /\ ResultIdle /\ MergeIdle /\ AssembleIdle /\ FilterIdle /\ WrapIdle /\ SubIdle /\ ResolverIdle

SpecTransforms == InitTransforms /\ [][PipeNext]_vars

\* RenameTypes
InitRename == RenameInit /\ HealIdle /\ PipeIdle /\ NullIdle /\ ResultIdle /\ MergeIdle /\ AssembleIdle /\ FilterIdle /\ WrapIdle /\ SubIdle /\ ResolverIdle

SpecRename == InitRename /\ [][RenameNext]_vars

\* handleNull
InitNull == NullInit /\ HealIdle /\ PipeIdle /\ RenameIdle /\ ResultIdle /\ MergeIdle /\ AssembleIdle /\ FilterIdle /\ WrapIdle /\ SubIdle /\ ResolverIdle

SpecNull == InitNull /\ [][NullNext]_vars

\* the result reconciler
InitResult == ResultInit /\ HealIdle /\ PipeIdle /\ RenameIdle /\ NullIdle /\ MergeIdle /\ AssembleIdle /\ FilterIdle /\ WrapIdle /\ SubIdle /\ ResolverIdle

SpecResult == InitResult /\ [][ResultNext]_vars

\* type merging at run time
InitMerge == MergeInit /\ HealIdle /\ PipeIdle /\ RenameIdle /\ NullIdle /\ ResultIdle /\ AssembleIdle /\ FilterIdle /\ WrapIdle /\ SubIdle /\ ResolverIdle

SpecMerge == InitMerge /\ [][MergeNext]_vars

\* mergeSchemas
InitAssemble == AssembleInit /\ HealIdle /\ PipeIdle /\ RenameIdle /\ NullIdle /\ ResultIdle /\ MergeIdle /\ FilterIdle /\ WrapIdle /\ SubIdle /\ ResolverIdle

SpecAssemble == InitAssemble /\ [][AssembleNext]_vars

\* filterSchema
InitFilter == FilterInit /\ HealIdle /\ PipeIdle /\ RenameIdle /\ NullIdle /\ ResultIdle /\ MergeIdle /\ AssembleIdle /\ WrapIdle /\ SubIdle /\ ResolverIdle

SpecFilter == InitFilter /\ [][FilterNext]_vars

\* WrapFields
InitWrap == WrapInit /\ HealIdle /\ PipeIdle /\ RenameIdle /\ NullIdle /\ ResultIdle /\ MergeIdle /\ AssembleIdle /\ FilterIdle /\ SubIdle /\ ResolverIdle

SpecWrap == InitWrap /\ [][WrapNext]_vars

\* remote subscriptions
InitSub == SubInit /\ HealIdle /\ PipeIdle /\ RenameIdle /\ NullIdle /\ ResultIdle /\ MergeIdle /\ AssembleIdle /\ FilterIdle /\ WrapIdle /\ ResolverIdle

SpecSub == InitSub /\ [][SubNext]_vars

\* resolver inheritance
InitResolver == ResolverInit /\ HealIdle /\ PipeIdle /\ RenameIdle /\ NullIdle /\ ResultIdle /\ MergeIdle /\ AssembleIdle /\ FilterIdle /\ WrapIdle /\ SubIdle

SpecResolver == InitResolver /\ [][ResolverNext]_vars

====
